---------------------------- MODULE Spec2Model ----------------------------
(***************************************************************************)
(* A model of the To-The-Moon trading bot: the TradingEngine scheduler     *)
(* (trading/tradingEngine.js), the RAGAgent decision workflow              *)
(* (rag/ragAgent.js) and the RiskManager order validation                  *)
(* (trading/riskManager.js).                                               *)
(*                                                                         *)
(* JavaScript runs one callback at a time; an async function runs          *)
(* synchronously up to its next `await`.  Every action below is therefore  *)
(* one such run-to-await segment: the resumption of one awaited call       *)
(* together with all the synchronous code that follows it.                 *)
(*                                                                         *)
(* Numbers are exact and counted in tenths: the integer n stands for the   *)
(* JavaScript number n/10 (floating-point rounding is not modelled).       *)
(***************************************************************************)
EXTENDS Integers, Sequences, FiniteSets, TLC

(***************************************************************************)
(* JavaScript values.  Every value carries its type tag t; primitives      *)
(* carry a number n (tenths) or a string s.                                *)
(***************************************************************************)
Undef == [t |-> "undefined", n |-> 0, s |-> ""]

Null == [t |-> "null", n |-> 0, s |-> ""]

NaN == [t |-> "nan", n |-> 0, s |-> ""]

Infinity == [t |-> "infinity", n |-> 0, s |-> ""]

Num(k) == [t |-> "number", n |-> k, s |-> ""]

Str(x) == [t |-> "string", n |-> 0, s |-> x]

Bool(b) == [t |-> "boolean", n |-> IF b THEN 1 ELSE 0, s |-> ""]

EmptyArray == [t |-> "array", n |-> 0, s |-> ""]

\* An object literal with none of the fields the program reads.
EmptyObject ==
  [t |-> "object", action |-> Undef, symbol |-> Undef, ticker |-> Undef,
   quantity |-> Undef, size |-> Undef, amount |-> Undef,
   confidence |-> Undef, reasoning |-> Undef, explanation |-> Undef,
   price |-> Undef, order_type |-> Undef, decision |-> Undef]

\* typeof v
TypeOf(v) ==
  CASE v.t \in {"number", "nan", "infinity"} -> "number"
    [] v.t \in {"object", "array", "null"} -> "object"
    [] OTHER -> v.t

\* ToBoolean(v): what `!v`, `v || w` and `v && w` test
Truthy(v) ==
  CASE v.t \in {"undefined", "null", "nan"} -> FALSE
    [] v.t = "number" -> v.n # 0
    [] v.t = "string" -> v.s # ""
    [] v.t = "boolean" -> v.n = 1
    [] OTHER -> TRUE

\* a || b
OrElse(a, b) == IF Truthy(a) THEN a ELSE b

\* a ?? b
Coalesce(a, b) == IF a.t \in {"undefined", "null"} THEN b ELSE a

\* o.f for an object or an array o (an array has none of the named fields)
Get(o, f) == IF o.t = "object" THEN o[f] ELSE Undef

\* Number.isFinite(v)
IsFinite(v) == v.t = "number"

(***************************************************************************)
(* String functions, tabulated over the strings the inputs below use.      *)
(***************************************************************************)
\* String.prototype.trim
Trim(x) ==
  CASE x = " buy " -> "buy"
    [] x = "   " -> ""
    [] x = " BTC/USD " -> "BTC/USD"
    [] OTHER -> x

\* String.prototype.toUpperCase
ToUpperCase(x) ==
  CASE x = "buy" -> "BUY"
    [] x = "sell" -> "SELL"
    [] x = "hold" -> "HOLD"
    [] x = "Sell" -> "SELL"
    [] x = "wait" -> "WAIT"
    [] x = "true" -> "TRUE"
    [] x = "0.5" -> "0.5"
    [] x = "[object Object]" -> "[OBJECT OBJECT]"
    [] OTHER -> x

\* Number.prototype.toString for the numbers the inputs use (tenths)
NumberToString(k) ==
  CASE k = 0 -> "0"
    [] k = 5 -> "0.5"
    [] k = 8 -> "0.8"
    [] k = 9 -> "0.9"
    [] k = 10 -> "1"
    [] k = 15 -> "1.5"
    [] k = 30 -> "3"
    [] k = 420 -> "42"
    [] k = 1000 -> "100"
    [] k = 2000 -> "200"
    [] k = -2 -> "-0.2"
    [] k = -10 -> "-1"
    [] OTHER -> "number"

\* v.toString() for a value that has one (not undefined or null)
JSToString(v) ==
  CASE v.t = "string" -> v.s
    [] v.t = "number" -> NumberToString(v.n)
    [] v.t = "nan" -> "NaN"
    [] v.t = "infinity" -> "Infinity"
    [] v.t = "boolean" -> IF v.n = 1 THEN "true" ELSE "false"
    [] v.t = "array" -> ""
    [] OTHER -> "[object Object]"

\* parseFloat of a string: the longest numeric prefix, NaN when there is none
ParseFloatString(x) ==
  CASE x = "0" -> Num(0)
    [] x = "0.5" -> Num(5)
    [] x = "0.8" -> Num(8)
    [] x = "0.9" -> Num(9)
    [] x = "1" -> Num(10)
    [] x = "1.5" -> Num(15)
    [] x = "3" -> Num(30)
    [] x = "42" -> Num(420)
    [] x = "100" -> Num(1000)
    [] x = "200" -> Num(2000)
    [] x = "-0.2" -> Num(-2)
    [] x = "-1" -> Num(-10)
    [] x = "0.5 BTC" -> Num(5)
    [] x = "Infinity" -> Infinity
    [] OTHER -> NaN

\* parseFloat(v) and Number.parseFloat(v): the argument is first converted
\* to a string; a number's own string parses back to the number
ParseFloat(v) ==
  CASE v.t \in {"undefined", "null"} -> NaN
    [] v.t \in {"number", "nan", "infinity"} -> v
    [] OTHER -> ParseFloatString(JSToString(v))

(***************************************************************************)
(* Results of calls that may throw: r.threw tells a thrown exception       *)
(* (r.error is its message) from a returned value (r.value).               *)
(***************************************************************************)
Return(v) == [threw |-> FALSE, value |-> v, error |-> ""]

Throw(msg) == [threw |-> TRUE, value |-> Undef, error |-> msg]

(***************************************************************************)
(* RAGAgent.normalizeDecision                                              *)
(***************************************************************************)
SupportedActions == {"BUY", "SELL", "HOLD"}

\* every level of nesting under `decision` keys is unwrapped
RECURSIVE CandidateUnwrapsAll(_)
CandidateUnwrapsAll(decision) ==
  IF TypeOf(Get(decision, "decision")) = "object" /\ Get(decision, "decision").t # "null"
    THEN CandidateUnwrapsAll(Get(decision, "decision"))
    ELSE decision

\* the object that is validated: the one under the `decision` key when that
\* key holds a non-null object, else the payload itself
Candidate(decision) ==
  LET inner == Get(decision, "decision")
  IN  IF TypeOf(inner) = "object" /\ inner.t # "null" THEN inner ELSE decision

\* the action taken as it is written, neither trimmed nor upper-cased
ActionOfVerbatim(candidate) == JSToString(OrElse(Get(candidate, "action"), Str("")))

\* (candidate.action || '').toString().trim().toUpperCase()
ActionOf(candidate) ==
  ToUpperCase(Trim(JSToString(OrElse(Get(candidate, "action"), Str("")))))

\* the confidence parsed but not clamped
ConfidenceOfUnclamped(candidate) ==
  IF IsFinite(ParseFloat(Coalesce(Get(candidate, "confidence"), Num(0))))
    THEN ParseFloat(Coalesce(Get(candidate, "confidence"), Num(0)))
    ELSE Num(0)

\* Number.parseFloat(candidate.confidence ?? 0), clamped to [0, 1], 0 when it
\* is not finite
ConfidenceOf(candidate) ==
  LET confidenceValue == ParseFloat(Coalesce(Get(candidate, "confidence"), Num(0)))
  IN  IF IsFinite(confidenceValue)
        THEN Num(IF confidenceValue.n < 0 THEN 0
                 ELSE IF confidenceValue.n > 10 THEN 10 ELSE confidenceValue.n)
        ELSE Num(0)

\* (candidate.symbol || candidate.ticker || '').toString().trim()
SymbolOf(candidate) ==
  Trim(JSToString(OrElse(OrElse(Get(candidate, "symbol"), Get(candidate, "ticker")),
                         Str(""))))

\* the quantity taken as it is written: a string is not parsed
QuantityOfUnparsed(candidate) ==
  Coalesce(Coalesce(Get(candidate, "quantity"), Get(candidate, "size")),
           Get(candidate, "amount"))

\* candidate.quantity ?? candidate.size ?? candidate.amount, parsed when it is
\* a string
QuantityOf(candidate) ==
  LET rawQuantity == Coalesce(Coalesce(Get(candidate, "quantity"),
                                       Get(candidate, "size")),
                              Get(candidate, "amount"))
  IN  IF TypeOf(rawQuantity) = "string" THEN ParseFloat(rawQuantity) ELSE rawQuantity

NormalizeDecision(decision) ==
  IF ~Truthy(decision) \/ TypeOf(decision) # "object"
    THEN Throw("Decision payload must be an object")
  ELSE
    LET candidate == Candidate(decision)
        action == ActionOf(candidate)
    IN  IF action = "" THEN Throw("Decision is missing an action")
        ELSE IF action \notin SupportedActions
          THEN Throw("Unsupported decision action")
        ELSE
          LET normalized ==
                [candidate EXCEPT
                   !.action = Str(action),
                   !.reasoning = Coalesce(Coalesce(Get(candidate, "reasoning"),
                                                   Get(candidate, "explanation")),
                                          Str("")),
                   !.confidence = ConfidenceOf(candidate)]
          IN  IF action \in {"BUY", "SELL"}
                THEN LET symbol == SymbolOf(candidate)
                         quantity == QuantityOf(candidate)
                     IN  IF symbol = ""
                           THEN Throw("Decision action requires a symbol")
                         ELSE IF ~IsFinite(quantity) \/ quantity.n <= 0
                           THEN Throw("Decision action requires a positive quantity")
                         ELSE Return([normalized EXCEPT !.symbol = Str(symbol),
                                                        !.quantity = quantity])
                ELSE Return([normalized EXCEPT
                               !.symbol = Coalesce(Get(candidate, "symbol"), Null),
                               !.quantity = Num(0)])

(***************************************************************************)
(* The replies of the analysis collaborator (deepSeekClient.analyzeScenario *)
(* returns the message content: a string, or null when the message has     *)
(* none) and JSON.parse over them.                                         *)
(***************************************************************************)
BuyText ==
  "{\"action\":\" buy \",\"symbol\":\"BTC/USD\",\"quantity\":\"0.5\",\"confidence\":1.5}"

SellText ==
  "{\"action\":\"Sell\",\"ticker\":\" BTC/USD \",\"size\":0.5,\"confidence\":0.8,\"explanation\":\"take profit\"}"

NestedBuyText ==
  "{\"decision\":{\"action\":\"BUY\",\"symbol\":\"BTC/USD\",\"amount\":200,\"confidence\":\"high\"}}"

LimitBuyText ==
  "{\"action\":\"BUY\",\"symbol\":\"BTC/USD\",\"quantity\":0.5,\"price\":\"100\",\"order_type\":\"LIMIT\",\"confidence\":0.9}"

HoldText ==
  "{\"action\":\"hold\",\"symbol\":\"ETH/USD\",\"quantity\":3,\"confidence\":-0.2,\"reasoning\":\"wait\"}"

WaitText == "{\"action\":\"wait\"}"

NoSymbolText == "{\"action\":\"BUY\",\"quantity\":1}"

ZeroQuantityText == "{\"action\":\"SELL\",\"symbol\":\"BTC/USD\",\"quantity\":0}"

ProseText == "I recommend to BUY 0.5 BTC/USD"

PrefixedText == "Decision:\n{\"action\":\"SELL\",\"symbol\":\"BTC/USD\",\"quantity\":1}"

NumberText == "42"

NullText == "null"

ArrayText == "[]"

\* JSON.parse(text): the parsed value, or a thrown SyntaxError
JSONParse(text) ==
  CASE text = BuyText ->
         Return([EmptyObject EXCEPT !.action = Str(" buy "),
                                    !.symbol = Str("BTC/USD"),
                                    !.quantity = Str("0.5"),
                                    !.confidence = Num(15)])
    [] text = SellText ->
         Return([EmptyObject EXCEPT !.action = Str("Sell"),
                                    !.ticker = Str(" BTC/USD "),
                                    !.size = Num(5),
                                    !.confidence = Num(8),
                                    !.explanation = Str("take profit")])
    [] text = NestedBuyText ->
         Return([EmptyObject EXCEPT
                   !.decision = [EmptyObject EXCEPT !.action = Str("BUY"),
                                                    !.symbol = Str("BTC/USD"),
                                                    !.amount = Num(2000),
                                                    !.confidence = Str("high")]])
    [] text = LimitBuyText ->
         Return([EmptyObject EXCEPT !.action = Str("BUY"),
                                    !.symbol = Str("BTC/USD"),
                                    !.quantity = Num(5),
                                    !.price = Str("100"),
                                    !.order_type = Str("LIMIT"),
                                    !.confidence = Num(9)])
    [] text = HoldText ->
         Return([EmptyObject EXCEPT !.action = Str("hold"),
                                    !.symbol = Str("ETH/USD"),
                                    !.quantity = Num(30),
                                    !.confidence = Num(-2),
                                    !.reasoning = Str("wait")])
    [] text = WaitText -> Return([EmptyObject EXCEPT !.action = Str("wait")])
    [] text = NoSymbolText ->
         Return([EmptyObject EXCEPT !.action = Str("BUY"), !.quantity = Num(10)])
    [] text = ZeroQuantityText ->
         Return([EmptyObject EXCEPT !.action = Str("SELL"),
                                    !.symbol = Str("BTC/USD"),
                                    !.quantity = Num(0)])
    [] text = NumberText -> Return(Num(420))
    [] text = NullText -> Return(Null)
    [] text = ArrayText -> Return(EmptyArray)
    [] OTHER -> Throw("SyntaxError")

\* what the decide call can do: fail (a network or HTTP error), or reply
DecideFailed == [ok |-> FALSE, reply |-> Undef]

DecideReplied(v) == [ok |-> TRUE, reply |-> v]

ReplyTexts ==
  {BuyText, SellText, NestedBuyText, LimitBuyText, HoldText, WaitText,
   NoSymbolText, ZeroQuantityText, ProseText, PrefixedText, NumberText,
   NullText, ArrayText}

DecideOutcomes ==
  {DecideFailed, DecideReplied(Null)} \cup {DecideReplied(Str(x)) : x \in ReplyTexts}

(***************************************************************************)
(* RAGAgent.makeDecision                                                   *)
(***************************************************************************)
\* the decision the catch block returns
HoldFallback ==
  [EmptyObject EXCEPT
     !.action = Str("HOLD"),
     !.reasoning = Str("Error in decision making, defaulting to HOLD"),
     !.confidence = Num(0)]

\* the inner try: parse a string reply, take any other reply as it is
ParseDecision(decision) ==
  IF TypeOf(decision) = "string"
    THEN LET parsed == JSONParse(decision.s)
         IN  IF parsed.threw
               THEN Throw("Invalid decision format received from DeepSeek")
               ELSE parsed
    ELSE Return(decision)

\* the body of the outer try: await the reply, parse it, normalize it
TryMakeDecision(outcome) ==
  IF ~outcome.ok THEN Throw("analyzeScenario failed")
  ELSE LET parsedDecision == ParseDecision(outcome.reply)
       IN  IF parsedDecision.threw THEN parsedDecision
           ELSE NormalizeDecision(parsedDecision.value)

\* makeDecision without its catch block: what the try throws is propagated
MakeDecisionUncaught(outcome) == TryMakeDecision(outcome)

\* makeDecision: whatever the try throws becomes the HOLD fallback
MakeDecision(outcome) ==
  LET attempt == TryMakeDecision(outcome)
  IN  IF attempt.threw THEN Return(HoldFallback) ELSE attempt

(***************************************************************************)
(* RiskManager (trading/riskManager.js).  A portfolio snapshot holds        *)
(* balance, a function from currency to amount.  Amounts are in tenths;    *)
(* products of two amounts are in hundredths.                              *)
(***************************************************************************)
\* config.trading.maxPositionSize = MaxPositionSizeNum / MaxPositionSizeDen
MaxPositionSizeNum == 1

MaxPositionSizeDen == 10

Currencies == {"USD", "BTC", "ETH"}

\* pair.split('/'): <<[0], [1]>>; [1] is undefined without a separator
SplitPair(pair) ==
  CASE pair = "BTC/USD" -> <<Str("BTC"), Str("USD")>>
    [] pair = "ETH/USD" -> <<Str("ETH"), Str("USD")>>
    [] OTHER -> <<Str(pair), Undef>>

\* balance[currency] (a missing key reads as undefined)
BalanceOf(balance, currency) ==
  IF currency.t = "string" /\ currency.s \in DOMAIN balance
    THEN balance[currency.s] ELSE Undef

\* a * b of two parsed numbers, in hundredths; NaN when either is NaN
Times(a, b) == IF IsFinite(a) /\ IsFinite(b) THEN Num(a.n * b.n) ELSE NaN

\* price ? parseFloat(price) : 1
PriceFactor(price) == IF Truthy(price) THEN ParseFloat(price) ELSE Num(10)

\* quantity * (price ? price : 1), in hundredths
OrderValue(order) == Times(ParseFloat(order.quantity), PriceFactor(order.price))

\* calculatePortfolioValue: the sum of the amounts, 1 when the sum is 0 or NaN
RECURSIVE SumBalances(_, _)
SumBalances(balance, keys) ==
  IF keys = {} THEN Num(0)
  ELSE LET k == CHOOSE x \in keys : TRUE
           rest == SumBalances(balance, keys \ {k})
           amount == ParseFloat(OrElse(balance[k], Num(0)))
       IN  IF IsFinite(rest) /\ IsFinite(amount) THEN Num(rest.n + amount.n) ELSE NaN

CalculatePortfolioValue(portfolio) ==
  OrElse(SumBalances(portfolio.balance, DOMAIN portfolio.balance), Num(10))

\* orderValue / totalPortfolioValue > maxPositionSize, cross-multiplied
\* (orderValue in hundredths, totalPortfolioValue in tenths)
PositionSizeExceeded(order, portfolio) ==
  LET orderValue == OrderValue(order)
      total == CalculatePortfolioValue(portfolio)
  IN  /\ IsFinite(orderValue)
      /\ IF total.n > 0
           THEN orderValue.n * MaxPositionSizeDen > MaxPositionSizeNum * 10 * total.n
           ELSE orderValue.n * MaxPositionSizeDen < MaxPositionSizeNum * 10 * total.n

\* a position-size check without a limit
CheckPositionSizeUnlimited(order, portfolio) == [valid |-> TRUE, reason |-> ""]

CheckPositionSize(order, portfolio) ==
  IF PositionSizeExceeded(order, portfolio)
    THEN [valid |-> FALSE, reason |-> "Position size exceeds maximum"]
    ELSE [valid |-> TRUE, reason |-> ""]

\* a balance check that never finds the balance insufficient
InsufficientBalanceNever(required, available) == FALSE

\* requiredAmount > availableBalance (required in hundredths, available in
\* tenths); false when either is NaN
InsufficientBalance(required, available) ==
  IsFinite(required) /\ IsFinite(available) /\ required.n > available.n * 10

ValidateOrder(order, portfolio) ==
  IF ~Truthy(order.pair) \/ ~Truthy(order.side) \/ ~Truthy(order.quantity)
    THEN Return([valid |-> FALSE, reason |-> "Missing required order fields"])
  ELSE IF IsFinite(ParseFloat(order.quantity)) /\ ParseFloat(order.quantity).n <= 0
    THEN Return([valid |-> FALSE, reason |-> "Quantity must be positive"])
  ELSE IF /\ order.order_type = Str("LIMIT")
          /\ \/ ~Truthy(order.price)
             \/ IsFinite(ParseFloat(order.price)) /\ ParseFloat(order.price).n <= 0
    THEN Return([valid |-> FALSE, reason |-> "LIMIT orders require a valid price"])
  ELSE IF TypeOf(order.pair) # "string"
    THEN Throw("TypeError: pair.split is not a function")
  ELSE
    LET baseCurrency == SplitPair(order.pair.s)[1]
        quoteCurrency == SplitPair(order.pair.s)[2]
        balance == portfolio.balance
    IN  IF /\ order.side = Str("BUY")
           /\ InsufficientBalance(
                OrderValue(order),
                ParseFloat(OrElse(BalanceOf(balance, quoteCurrency), Num(0))))
          THEN Return([valid |-> FALSE, reason |-> "Insufficient quote balance"])
        ELSE IF /\ order.side = Str("SELL")
                /\ InsufficientBalance(
                     Times(ParseFloat(order.quantity), Num(10)),
                     ParseFloat(OrElse(BalanceOf(balance, baseCurrency), Num(0))))
          THEN Return([valid |-> FALSE, reason |-> "Insufficient base balance"])
        ELSE IF ~CheckPositionSize(order, portfolio).valid
          THEN Return(CheckPositionSize(order, portfolio))
        ELSE Return([valid |-> TRUE, reason |-> "Order validated successfully"])

(***************************************************************************)
(* VectorStore (rag/vectorStore.js).  An embedding is kept as its bucket   *)
(* counts c; the stored vector is c / sqrt(sum of c[i]^2), which has the   *)
(* same cosine similarities.                                               *)
(***************************************************************************)
EmbeddingSize == 128

QueryText ==
  "Market data for BTC/USD {\"balance\":{\"USD\":1000}} {\"tickers\":[]}"

FallbackQueryText ==
  "{\"marketConditions\":\"Market data for BTC/USD\",\"portfolio\":{\"balance\":{\"USD\":1000}},\"currentPositions\":[],\"marketData\":{\"tickers\":[]}}"

MomentumText == "Momentum strategy: buy BTC on market breakout"

ReversionText == "Mean reversion: sell ETH when RSI is high"

\* text.toLowerCase().replace(/[^\w\s]/g, ' ').split(/\s+/).filter(w => w.length > 2)
Words(text) ==
  CASE text = QueryText ->
         <<"market", "data", "for", "btc", "usd", "balance", "usd", "1000", "tickers">>
    [] text = FallbackQueryText ->
         <<"marketconditions", "market", "data", "for", "btc", "usd", "portfolio",
           "balance", "usd", "1000", "currentpositions", "marketdata", "tickers">>
    [] text = MomentumText ->
         <<"momentum", "strategy", "buy", "btc", "market", "breakout">>
    [] text = ReversionText ->
         <<"mean", "reversion", "sell", "eth", "when", "rsi", "high">>
    [] OTHER -> <<>>

\* simpleHash(word): the 32-bit rolling hash 31 * hash + char, made non-negative
SimpleHash(word) ==
  CASE word = "1000" -> 1507423
    [] word = "balance" -> 339185956
    [] word = "breakout" -> 77349359
    [] word = "btc" -> 97873
    [] word = "buy" -> 97926
    [] word = "currentpositions" -> 842000145
    [] word = "data" -> 3076010
    [] word = "eth" -> 100761
    [] word = "for" -> 101577
    [] word = "high" -> 3202466
    [] word = "market" -> 1081306052
    [] word = "marketconditions" -> 1509838860
    [] word = "marketdata" -> 1117717990
    [] word = "mean" -> 3347397
    [] word = "momentum" -> 361295720
    [] word = "portfolio" -> 1121781064
    [] word = "reversion" -> 390414149
    [] word = "rsi" -> 113224
    [] word = "sell" -> 3526482
    [] word = "strategy" -> 1787798387
    [] word = "tickers" -> 1322977623
    [] word = "usd" -> 116102
    [] word = "when" -> 3648314
    [] OTHER -> 0

\* embedding[hash % 128] += 1 for every word: the bucket counts of the words
CountWords(words) ==
  [b \in 0..(EmbeddingSize - 1) |->
     Cardinality({i \in 1..Len(words) : SimpleHash(words[i]) % EmbeddingSize = b})]

\* the bucket counts of the text
BucketCounts(text) == CountWords(Words(text))

\* toLowerCase().replace(/[^\w\s]/g, ' ').split(/\s+/) of one stretch of text
\* without white space: its runs of letters, digits and underscores ("$$$$"
\* has none; the empty strings split leaves at the ends of a text are not
\* longer than 2 and so never counted)
RawWords(token) ==
  CASE token = "market" -> <<"market">>
    [] token = "Buy!" -> <<"buy">>
    [] token = "BTC/USD" -> <<"btc", "usd">>
    [] token = "to" -> <<"to">>
    [] token = "a" -> <<"a">>
    [] OTHER -> <<>>

\* the split of a text given as its stretches between white space
RECURSIVE SplitWords(_)
SplitWords(tokens) ==
  IF tokens = <<>> THEN <<>>
  ELSE RawWords(Head(tokens)) \o SplitWords(Tail(tokens))

\* w.length > 2
IsCounted(w) == Len(w) > 2

\* .filter(w => w.length > 2)
LongWords(words) == SelectSeq(words, IsCounted)

\* the texts that are embedded
EmbeddedTexts == {QueryText, FallbackQueryText, MomentumText, ReversionText, ""}

\* generateEmbedding is a function of its text alone: its values, computed once
Embeddings == [text \in EmbeddedTexts |-> BucketCounts(text)]

\* generateEmbedding(text)
GenerateEmbedding(text) == Embeddings[text]

\* the sum of f over the indices in idx
RECURSIVE SumOver(_, _)
SumOver(idx, f) ==
  IF idx = {} THEN 0
  ELSE LET i == CHOOSE x \in idx : TRUE
       IN  f[i] + SumOver(idx \ {i}, f)

\* the sum of vec1[i] * vec2[i]; zero terms are skipped
DotProduct(vec1, vec2) ==
  SumOver({i \in DOMAIN vec1 : vec1[i] # 0 /\ vec2[i] # 0},
          [i \in DOMAIN vec1 |-> vec1[i] * vec2[i]])

Unnormalized(counts) == [counts |-> counts, magnitude2 |-> 1]

\* the normalisation of the counts: the vector counts / sqrt(magnitude2),
\* the counts themselves (all zero) when the magnitude is 0
Normalized(counts) ==
  [counts |-> counts,
   magnitude2 |-> IF DotProduct(counts, counts) > 0 THEN DotProduct(counts, counts)
                  ELSE 1]

\* generateEmbedding of the text made of the given stretches
EmbedTokens(tokens) == Normalized(CountWords(LongWords(SplitWords(tokens))))

\* cosineSimilarity(vec1, vec2) = dot / sqrt(m1 * m2), kept as <<dot, m1 * m2>>;
\* <<0, 1>> is the similarity 0
CosineSimilarity(vec1, vec2) ==
  IF DOMAIN vec1 # DOMAIN vec2 THEN <<0, 1>>
  ELSE LET m1 == DotProduct(vec1, vec1)
           m2 == DotProduct(vec2, vec2)
       IN  IF m1 = 0 \/ m2 = 0 THEN <<0, 1>>
           ELSE <<DotProduct(vec1, vec2), m1 * m2>>

\* similarity > 0.1 (counts are non-negative, so similarities are too)
AboveThreshold(sim) == sim[1] > 0 /\ 100 * sim[1] * sim[1] > sim[2]

\* a > b for two similarities
SimGreater(a, b) == a[1] * a[1] * b[2] > b[1] * b[1] * a[2]

\* the indices in idx left in insertion order
InsertionOrder(idx, sim) ==
  CHOOSE order \in [1..Cardinality(idx) -> idx] :
    \A a, b \in 1..Cardinality(idx) : a < b => order[a] < order[b]

\* the stable descending sort of the indices in idx by similarity
RECURSIVE SortBySimilarity(_, _)
SortBySimilarity(idx, sim) ==
  IF idx = {} THEN <<>>
  ELSE LET best == CHOOSE i \in idx :
                     \A j \in idx \ {i} :
                        SimGreater(sim[i], sim[j])
                        \/ (~SimGreater(sim[j], sim[i]) /\ i < j)
       IN  <<best>> \o SortBySimilarity(idx \ {best}, sim)

\* cosineSimilarity of the embeddings of two texts, computed once
TextSimilarities ==
  [a \in EmbeddedTexts |->
     [b \in EmbeddedTexts |-> CosineSimilarity(Embeddings[a], Embeddings[b])]]

\* cosineSimilarity(queryEmbedding, entry.embedding): looked up when the entry
\* holds the embedding of its own text, computed otherwise
EntrySimilarity(query, entry) ==
  IF entry.strategy \in EmbeddedTexts /\ entry.embedding = Embeddings[entry.strategy]
    THEN TextSimilarities[query][entry.strategy]
    ELSE CosineSimilarity(GenerateEmbedding(query), entry.embedding)

\* searchSimilar(query, topK) over the entries of store
SearchSimilar(store, query, topK) ==
  LET sim == [i \in 1..Len(store) |-> EntrySimilarity(query, store[i])]
      kept == {i \in 1..Len(store) : AboveThreshold(sim[i])}
      order == SortBySimilarity(kept, sim)
      n == IF Len(order) < topK THEN Len(order) ELSE topK
  IN  [k \in 1..n |-> [entry |-> store[order[k]], similarity |-> sim[order[k]]]]

\* the entry addStrategy appends; Date.now() is the clock reading `time`
StrategyEntry(strategy, metadata, time) ==
  [id |-> time, strategy |-> strategy,
   embedding |-> GenerateEmbedding(strategy), metadata |-> metadata]

(***************************************************************************)
(* The steps of RAGAgent.executeWorkflow as functions of what the          *)
(* collaborators do.  A collaborator call either fails (ok = FALSE: the    *)
(* client throws) or replies with a text.                                  *)
(***************************************************************************)
Failed == [ok |-> FALSE, text |-> ""]

Replied(text) == [ok |-> TRUE, text |-> text]

\* similarStrategies.map(s => s.strategy)
StrategyTexts(results) == [k \in 1..Len(results) |-> results[k].entry.strategy]

\* retrieveStrategies without its catch block: the collaborator's failure is
\* propagated
RetrieveStrategiesUncaught(similar, store, outcome) ==
  IF outcome.ok
    THEN Return([similarStrategies |-> similar,
                 newStrategies |-> outcome.text,
                 allStrategies |-> Append(similar, outcome.text)])
    ELSE Throw("getTradingStrategies failed")

\* retrieveStrategies after the await: `similar` is the search made before the
\* call, `store` the entries at the time the call settles
RetrieveStrategies(similar, store, outcome) ==
  IF outcome.ok
    THEN Return([similarStrategies |-> similar,
                 newStrategies |-> outcome.text,
                 allStrategies |-> Append(similar, outcome.text)])
    ELSE LET fallback == StrategyTexts(SearchSimilar(store, FallbackQueryText, 5))
         IN  Return([similarStrategies |-> fallback,
                     newStrategies |-> "",
                     allStrategies |-> fallback])

\* a retrieveStrategies that stores whatever the collaborator returned, an
\* empty text included
StoreAfterRetrieveUnconditional(store, outcome, marketConditions, time) ==
  IF outcome.ok
    THEN Append(store, StrategyEntry(outcome.text,
                                     [source |-> Str("deepseek"),
                                      context |-> Str(marketConditions)],
                                     time))
    ELSE store

\* the store after retrieveStrategies: a non-empty strategy text is appended
StoreAfterRetrieve(store, outcome, marketConditions, time) ==
  IF outcome.ok /\ outcome.text # ""
    THEN Append(store, StrategyEntry(outcome.text,
                                     [source |-> Str("deepseek"),
                                      context |-> Str(marketConditions)],
                                     time))
    ELSE store

\* the reply object {news: text, raw} or {data: text, raw} of the client
ReplyObject(text) == [t |-> "object", n |-> 0, s |-> text]

\* reply.news || reply
TextOrReply(text) == IF text # "" THEN Str(text) ELSE ReplyObject(text)

\* collectMarketData without its catch block: the rejection is propagated
CollectMarketDataUncaught(news, stockData, sentiment) ==
  IF news.ok /\ stockData.ok /\ sentiment.ok
    THEN Return([news |-> TextOrReply(news.text),
                 stockData |-> TextOrReply(stockData.text),
                 sentiment |-> Str(sentiment.text)])
    ELSE Throw("Promise.all rejected")

\* a collectMarketData that blanks only the fields whose requests failed
CollectMarketDataPartial(news, stockData, sentiment) ==
  Return([news |-> IF news.ok THEN TextOrReply(news.text) ELSE Str(""),
          stockData |-> IF stockData.ok THEN TextOrReply(stockData.text) ELSE Str(""),
          sentiment |-> IF sentiment.ok THEN Str(sentiment.text) ELSE Str("")])

\* collectMarketData: Promise.all rejects when any of the three calls fails
CollectMarketData(news, stockData, sentiment) ==
  IF news.ok /\ stockData.ok /\ sentiment.ok
    THEN Return([news |-> TextOrReply(news.text),
                 stockData |-> TextOrReply(stockData.text),
                 sentiment |-> Str(sentiment.text)])
    ELSE Return([news |-> Str(""), stockData |-> Str(""), sentiment |-> Str("")])

\* calculateMetrics
CalculateMetrics(outcome) ==
  IF outcome.ok
    THEN Return([calculations |-> TextOrReply(outcome.text), raw |-> ReplyObject("raw")])
    ELSE Return([calculations |-> Str(""), raw |-> Null])

\* the object synthesizeStrategy builds when the call fails
SynthesisFallback(strategies, marketData, metrics) ==
  [t |-> "object",
   strategy |-> "Combined strategy from multiple sources",
   entry |-> "Based on technical indicators and market sentiment",
   exit |-> "Based on risk metrics",
   risk |-> "Medium",
   confidence |-> Num(5),
   sources |-> [strategies |-> Len(strategies),
                marketData |-> Cardinality(DOMAIN marketData),
                metrics |-> Cardinality(DOMAIN metrics)]]

\* a synthesis reply: the message content, a string or null
SynthesisReplied(content) == [ok |-> TRUE, content |-> content]

SynthesisFailed == [ok |-> FALSE, content |-> Undef]

\* synthesizeStrategy: reading synthesized.length of a null content throws
\* inside the try, so it ends in the fallback as a failed call does
SynthesizeStrategy(strategies, marketData, metrics, outcome) ==
  IF outcome.ok /\ outcome.content.t = "string"
    THEN Return(outcome.content)
    ELSE Return(SynthesisFallback(strategies, marketData, metrics))

(***************************************************************************)
(* State.                                                                  *)
(***************************************************************************)
VARIABLES
  isRunning,        \* TradingEngine.isRunning
  tradingInterval,  \* TradingEngine.tradingInterval: a timer id, or NoTimer
  cycleCount,       \* TradingEngine.cycleCount
  lastDecision,     \* TradingEngine.lastDecision
  portfolio,        \* TradingEngine.portfolio
  liveTimers,       \* the interval timers armed in the runtime
  starts,           \* the start() calls: where each one is
  stopCalls,        \* the number of stop() calls made
  atStop,           \* what stop() found when it last stopped the engine
  cycles,           \* the runTradingCycle() calls: where each one is
  strategies,       \* VectorStore.strategies
  strategiesFile,   \* the content of strategies.json
  now,              \* the clock, in milliseconds
  wf,               \* the executeWorkflow() call under way
  runs,             \* the number of executeWorkflow() calls made
  call              \* a call of a library function: its arguments and result

engineVars ==
  <<isRunning, tradingInterval, cycleCount, lastDecision, portfolio, liveTimers,
    starts, stopCalls, atStop, cycles>>

storeVars == <<strategies, strategiesFile, now>>

workflowVars == <<wf, runs>>

callVars == <<call>>

vars == <<engineVars, storeVars, workflowVars, callVars>>

(***************************************************************************)
(* Bounds of the model.                                                    *)
(***************************************************************************)
MaxStarts == 2

MaxStops == 2

MaxCycles == 2

MaxRuns == 2

MaxNow == 0

\* the entries the store calls add, the largest topK they search with and the
\* clock readings they see
MaxStore == 3

MaxTopK == 3

MaxClock == 1

(***************************************************************************)
(* RAGAgent.executeWorkflow, one action per awaited call.                  *)
(***************************************************************************)
\* context.marketConditions, as the caller of executeWorkflow gives it
MarketConditions == "Market data for BTC/USD"

StrategiesOutcomes == {Failed, Replied(""), Replied(MomentumText), Replied(ReversionText)}

NewsOutcomes == {Failed, Replied("BTC rallies")}

StockDataOutcomes == {Failed, Replied(""), Replied("BTC 30000")}

SentimentOutcomes == {Failed, Replied("bullish")}

MetricsOutcomes == {Failed, Replied(""), Replied("RSI 70")}

SynthesisOutcomes ==
  {SynthesisFailed, SynthesisReplied(Null), SynthesisReplied(Str("Buy the breakout"))}

IdleRun ==
  [pc |-> "idle", similar |-> <<>>, strategies |-> Undef, collected |-> Undef,
   metrics |-> Undef, synthesized |-> Undef, result |-> Undef, failed |-> {},
   decide |-> Undef]

\* the run with the failed calls among `calls` noted (history: the calls of
\* this run that failed; run.decide is what its decide call did)
NoteFailed(run, calls) == [run EXCEPT !.failed = run.failed \cup calls]

\* an exception leaves executeWorkflow through its catch block, which rethrows
Rethrow(run) == [run EXCEPT !.pc = "threw"]

\* executeWorkflow(context) up to its first await: retrieveStrategies searches
\* the store and calls the strategy-generation collaborator
WfCall ==
  /\ wf.pc \in {"idle", "returned", "threw"}
  /\ runs < MaxRuns
  /\ runs' = runs + 1
  /\ wf' = [IdleRun EXCEPT
              !.pc = "getTradingStrategies",
              !.similar = StrategyTexts(SearchSimilar(strategies, QueryText, 5))]
  /\ UNCHANGED <<engineVars, storeVars, callVars>>

\* no strategies.json on disk
MissingFile == [kind |-> "missing", log |-> <<>>, written |-> <<>>]

\* a strategies.json that JSON.parse rejects
GarbageFile == [kind |-> "garbage", log |-> <<>>, written |-> <<>>]

\* the properties of an object that JSON.stringify writes: those that are not
\* undefined
JsonFields(object) ==
  [k \in {f \in DOMAIN object : object[f] # Undef} |-> object[k]]

\* JSON.stringify(this.strategies, null, 2), as the array the text denotes
JsonStringify(store) ==
  [i \in 1..Len(store) |-> [store[i] EXCEPT !.metadata = JsonFields(@)]]

\* a write that adds the last record to the file instead of replacing it
SaveStrategiesAppends(file, store, writeOk) ==
  IF writeOk
    THEN [kind |-> "json",
          log |-> file.log \o JsonStringify(SubSeq(store, Len(store), Len(store))),
          written |-> store]
  ELSE file

\* saveStrategies: the file takes the new content unless the write fails;
\* written remembers the in-memory log that was handed to the write
SaveStrategies(file, store, writeOk) ==
  IF writeOk THEN [kind |-> "json", log |-> JsonStringify(store), written |-> store]
  ELSE file

LoadStrategiesIgnoresFile(before, file) == before

\* loadStrategies over this.strategies = before: a file that is there is
\* read and parsed, a failure is caught and leaves the store empty
LoadStrategies(before, file) ==
  IF file.kind = "missing" THEN before
  ELSE IF file.kind = "json" THEN file.log
  ELSE <<>>

\* getTradingStrategies settles: the new strategy is stored, then
\* collectMarketData starts its three calls
WfStrategiesSettle ==
  /\ wf.pc = "getTradingStrategies"
  /\ \E outcome \in StrategiesOutcomes, writeOk \in BOOLEAN, time \in now..MaxNow :
       LET r == RetrieveStrategies(wf.similar, strategies, outcome)
           store == StoreAfterRetrieve(strategies, outcome, MarketConditions, time)
       IN  /\ now' = time
           /\ strategies' = store
           /\ strategiesFile' = IF store = strategies THEN strategiesFile
                                ELSE SaveStrategies(strategiesFile, store, writeOk)
           /\ wf' = IF r.threw THEN Rethrow(wf)
                    ELSE [NoteFailed(wf, IF outcome.ok THEN {}
                                         ELSE {"getTradingStrategies"})
                            EXCEPT !.pc = "collectMarketData", !.strategies = r.value]
  /\ UNCHANGED <<engineVars, runs, callVars>>

\* the three market-context calls settle; calculateMetrics starts its call
WfMarketDataSettle ==
  /\ wf.pc = "collectMarketData"
  /\ \E news \in NewsOutcomes, stockData \in StockDataOutcomes,
        sentiment \in SentimentOutcomes :
       LET r == CollectMarketData(news, stockData, sentiment)
           calls == [getFinancialNews |-> news, getStockData |-> stockData,
                     getMarketSentiment |-> sentiment]
       IN  wf' = IF r.threw THEN Rethrow(wf)
                 ELSE [NoteFailed(wf, {k \in DOMAIN calls : ~calls[k].ok})
                         EXCEPT !.pc = "performCalculations", !.collected = r.value]
  /\ UNCHANGED <<engineVars, storeVars, runs, callVars>>

\* performCalculations settles; synthesizeStrategy starts its call
WfMetricsSettle ==
  /\ wf.pc = "performCalculations"
  /\ \E outcome \in MetricsOutcomes :
       LET r == CalculateMetrics(outcome)
       IN  wf' = IF r.threw THEN Rethrow(wf)
                 ELSE [NoteFailed(wf, IF outcome.ok THEN {} ELSE {"performCalculations"})
                         EXCEPT !.pc = "synthesizeStrategy", !.metrics = r.value]
  /\ UNCHANGED <<engineVars, storeVars, runs, callVars>>

\* the synthesis call settles; makeDecision starts its call
WfSynthesisSettle ==
  /\ wf.pc = "synthesizeStrategy"
  /\ \E outcome \in SynthesisOutcomes :
       LET r == SynthesizeStrategy(wf.strategies.allStrategies, wf.collected,
                                   wf.metrics, outcome)
       IN  wf' = IF r.threw THEN Rethrow(wf)
                 ELSE [NoteFailed(wf, IF outcome.ok THEN {} ELSE {"synthesize"})
                         EXCEPT !.pc = "makeDecision", !.synthesized = r.value]
  /\ UNCHANGED <<engineVars, storeVars, runs, callVars>>

\* the decide call settles; executeWorkflow returns its result
WfDecisionSettle ==
  /\ wf.pc = "makeDecision"
  /\ \E outcome \in DecideOutcomes :
       LET r == MakeDecision(outcome)
           run == [NoteFailed(wf, IF outcome.ok THEN {} ELSE {"decide"})
                     EXCEPT !.decide = outcome]
       IN  wf' = IF r.threw THEN Rethrow(run)
                 ELSE [run EXCEPT
                         !.pc = "returned",
                         !.result = [decision |-> r.value,
                                     synthesized |-> wf.synthesized,
                                     strategies |-> wf.strategies,
                                     marketData |-> wf.collected,
                                     metrics |-> wf.metrics]]
  /\ UNCHANGED <<engineVars, storeVars, runs, callVars>>

\* executeWorkflow as one function of what all its collaborators do: the
\* value it returns, or the exception it rethrows
ExecuteWorkflow(store, outs) ==
  LET similar == StrategyTexts(SearchSimilar(store, QueryText, 5))
      retrieved == RetrieveStrategies(similar, store, outs.strategies)
      collected == CollectMarketData(outs.news, outs.stockData, outs.sentiment)
      metrics == CalculateMetrics(outs.metrics)
  IN  IF retrieved.threw THEN retrieved
      ELSE IF collected.threw THEN collected
      ELSE IF metrics.threw THEN metrics
      ELSE LET synthesized == SynthesizeStrategy(retrieved.value.allStrategies,
                                                 collected.value, metrics.value,
                                                 outs.synthesis)
           IN  IF synthesized.threw THEN synthesized
               ELSE LET decision == MakeDecision(outs.decide)
                    IN  IF decision.threw THEN decision
                        ELSE Return([decision |-> decision.value,
                                     synthesized |-> synthesized.value,
                                     strategies |-> retrieved.value,
                                     marketData |-> collected.value,
                                     metrics |-> metrics.value])

(***************************************************************************)
(* TradingEngine (trading/tradingEngine.js).                               *)
(***************************************************************************)
NoTimer == 0

\* balance.Balance of the exchange's reply
FundedBalance == [USD |-> Num(10000), BTC |-> Num(20)]

ZeroBalance == [USD |-> Num(0), BTC |-> Num(0)]

Balances == {FundedBalance, ZeroBalance}

\* this.portfolio = null
NoPortfolio == [fetchedBy |-> "null", id |-> 0, seq |-> 0, balance |-> ZeroBalance]

\* the snapshot fetchPortfolio returns: who fetched it (start call or cycle
\* id, first fetch or refresh after an order) stands for its timestamp
Snapshot(balance, kind, id, seq) ==
  [fetchedBy |-> kind, id |-> id, seq |-> seq, balance |-> balance]

FetchFailed == [ok |-> FALSE, balance |-> ZeroBalance]

Fetched(balance) == [ok |-> TRUE, balance |-> balance]

\* what a fetchPortfolio call can do
FetchOutcomes == {FetchFailed} \cup {Fetched(b) : b \in Balances}

NoOrder ==
  [pair |-> Undef, side |-> Undef, order_type |-> Undef, quantity |-> Undef,
   price |-> Undef]

\* the order executeDecision prepares from a decision
BuildOrder(decision) ==
  [pair |-> decision.symbol,
   side |-> decision.action,
   order_type |-> IF decision.order_type = Undef THEN Str("MARKET")
                  ELSE decision.order_type,
   quantity |-> ParseFloat(decision.quantity),
   price |-> IF Truthy(decision.price) THEN ParseFloat(decision.price) ELSE Undef]

\* validateOrder(order, this.portfolio): reading portfolio.balance of null throws
ValidateAgainst(order, snapshot) ==
  IF snapshot.fetchedBy = "null"
    THEN Throw("TypeError: Cannot read properties of null")
    ELSE ValidateOrder(order, snapshot)

\* executeDecision without the validateOrder check: every BUY or SELL decision
\* with a symbol and a quantity is submitted
ExecuteDecisionUnvalidated(decision, snapshot) ==
  IF decision.action = Str("HOLD")
    THEN [submit |-> FALSE, order |-> NoOrder, reason |-> "HOLD decision"]
  ELSE IF ~Truthy(decision.symbol) \/ ~Truthy(decision.quantity)
    THEN [submit |-> FALSE, order |-> NoOrder, reason |-> "Invalid decision parameters"]
  ELSE [submit |-> TRUE, order |-> BuildOrder(decision), reason |-> ""]

\* executeDecision up to its first await: submit tells whether placeOrder is
\* called (with order); otherwise it has returned {executed: false, reason}
ExecuteDecision(decision, snapshot) ==
  IF decision.action = Str("HOLD")
    THEN [submit |-> FALSE, order |-> NoOrder, reason |-> "HOLD decision"]
  ELSE IF ~Truthy(decision.symbol) \/ ~Truthy(decision.quantity)
    THEN [submit |-> FALSE, order |-> NoOrder, reason |-> "Invalid decision parameters"]
  ELSE LET order == BuildOrder(decision)
           validation == ValidateAgainst(order, snapshot)
       IN  IF validation.threw
             THEN [submit |-> FALSE, order |-> NoOrder, reason |-> validation.error]
           ELSE IF ~validation.value.valid
             THEN [submit |-> FALSE, order |-> NoOrder,
                   reason |-> validation.value.reason]
           ELSE [submit |-> TRUE, order |-> order, reason |-> ""]

\* a runTradingCycle() call that has not been made.  executed is the flag of
\* its return value; orders, accepted and reported are history: the placeOrder
\* calls it has made, whether the exchange accepted its order, and the
\* executed field of what executeDecision returned to it
IdleCycle ==
  [pc |-> "idle", executed |-> FALSE, orders |-> 0, accepted |-> FALSE,
   reported |-> FALSE]

\* the cycles whose asynchronous work is outstanding
InFlight == {c \in 1..MaxCycles : cycles[c].pc \notin {"idle", "returned", "threw"}}

\* the cycles that have not yet received their decision from the workflow
AwaitingDecision ==
  {c \in 1..MaxCycles :
     cycles[c].pc \in {"fetchPortfolio", "fetchMarketData", "executeWorkflow"}}

\* runTradingCycle() up to its first await: the counter is incremented and the
\* portfolio fetch is started
BeginCycle ==
  /\ cycleCount < MaxCycles
  /\ cycleCount' = cycleCount + 1
  /\ cycles' = [cycles EXCEPT ![cycleCount + 1].pc = "fetchPortfolio"]

\* the start() calls made so far
StartsMade == {i \in 1..MaxStarts : starts[i] # "idle"}

\* start(): a no-op when the engine is running, else initialize() is entered
\* and awaits getServerTime
StartCall ==
  /\ \E i \in 1..MaxStarts :
       /\ starts[i] = "idle"
       /\ \A j \in 1..(i - 1) : starts[j] # "idle"
       /\ starts' = [starts EXCEPT ![i] = IF isRunning THEN "noop" ELSE "getServerTime"]
  /\ UNCHANGED <<isRunning, tradingInterval, cycleCount, lastDecision, portfolio,
                 liveTimers, stopCalls, atStop, cycles>>
  /\ UNCHANGED <<storeVars, workflowVars, callVars>>

\* getServerTime settles: initialize goes on to fetchPortfolio, or it rethrows
\* and start's catch block clears isRunning and rethrows
ServerTimeSettles(i) ==
  /\ starts[i] = "getServerTime"
  /\ \E ok \in BOOLEAN :
       IF ok
         THEN /\ starts' = [starts EXCEPT ![i] = "fetchPortfolio"]
              /\ UNCHANGED isRunning
         ELSE /\ starts' = [starts EXCEPT ![i] = "threw"]
              /\ isRunning' = FALSE
  /\ UNCHANGED <<tradingInterval, cycleCount, lastDecision, portfolio, liveTimers,
                 stopCalls, atStop, cycles>>
  /\ UNCHANGED <<storeVars, workflowVars, callVars>>

\* the initial fetchPortfolio settles.  On success start() sets isRunning,
\* runs the first cycle up to its first await and arms the interval timer; on
\* failure its catch block clears isRunning and rethrows
InitPortfolioSettles(i) ==
  /\ starts[i] = "fetchPortfolio"
  /\ \E outcome \in FetchOutcomes :
       IF outcome.ok
         THEN /\ portfolio' = Snapshot(outcome.balance, "start", i, 1)
              /\ isRunning' = TRUE
              /\ BeginCycle
              /\ tradingInterval' = i
              /\ liveTimers' = liveTimers \cup {i}
              /\ starts' = [starts EXCEPT ![i] = "returned"]
         ELSE /\ starts' = [starts EXCEPT ![i] = "threw"]
              /\ isRunning' = FALSE
              /\ UNCHANGED <<portfolio, cycleCount, cycles, tradingInterval, liveTimers>>
  /\ UNCHANGED <<lastDecision, stopCalls, atStop>>
  /\ UNCHANGED <<storeVars, workflowVars, callVars>>

\* history of stop(): whether it has stopped the engine and, when it last did,
\* the cycles still awaiting their decision and the start() calls already made
NeverStopped == [stopped |-> FALSE, cycles |-> {}, starts |-> {}]

\* a stop() that also aborts the cycles in flight
StopAbortingCycles ==
  /\ stopCalls < MaxStops
  /\ stopCalls' = stopCalls + 1
  /\ IF ~isRunning
       THEN UNCHANGED <<isRunning, tradingInterval, liveTimers, atStop, cycles>>
       ELSE /\ isRunning' = FALSE
            /\ tradingInterval' = NoTimer
            /\ liveTimers' = IF tradingInterval # NoTimer
                               THEN liveTimers \ {tradingInterval} ELSE liveTimers
            /\ atStop' = [stopped |-> TRUE, cycles |-> AwaitingDecision,
                          starts |-> StartsMade]
            /\ cycles' = [c \in 1..MaxCycles |->
                            IF c \in InFlight THEN [cycles[c] EXCEPT !.pc = "threw"]
                            ELSE cycles[c]]
  /\ UNCHANGED <<cycleCount, lastDecision, portfolio, starts>>
  /\ UNCHANGED <<storeVars, workflowVars, callVars>>

\* a stop() that also resets the cycle counter
StopResettingCount ==
  /\ stopCalls < MaxStops
  /\ stopCalls' = stopCalls + 1
  /\ IF ~isRunning
       THEN UNCHANGED <<isRunning, tradingInterval, liveTimers, atStop, cycleCount>>
       ELSE /\ isRunning' = FALSE
            /\ tradingInterval' = NoTimer
            /\ liveTimers' = IF tradingInterval # NoTimer
                               THEN liveTimers \ {tradingInterval} ELSE liveTimers
            /\ atStop' = [stopped |-> TRUE, cycles |-> AwaitingDecision,
                          starts |-> StartsMade]
            /\ cycleCount' = 0
  /\ UNCHANGED <<lastDecision, portfolio, starts, cycles>>
  /\ UNCHANGED <<storeVars, workflowVars, callVars>>

\* stop(): a no-op when the engine is not running, else isRunning is cleared
\* and the timer held in tradingInterval is cleared
Stop ==
  /\ stopCalls < MaxStops
  /\ stopCalls' = stopCalls + 1
  /\ IF ~isRunning
       THEN UNCHANGED <<isRunning, tradingInterval, liveTimers, atStop>>
       ELSE /\ isRunning' = FALSE
            /\ tradingInterval' = NoTimer
            /\ liveTimers' = IF tradingInterval # NoTimer
                               THEN liveTimers \ {tradingInterval} ELSE liveTimers
            /\ atStop' = [stopped |-> TRUE, cycles |-> AwaitingDecision,
                          starts |-> StartsMade]
  /\ UNCHANGED <<cycleCount, lastDecision, portfolio, starts, cycles>>
  /\ UNCHANGED <<storeVars, workflowVars, callVars>>

\* the interval callback of timer t: a new cycle when the engine is running
Tick(t) ==
  /\ t \in liveTimers
  /\ IF isRunning THEN BeginCycle ELSE UNCHANGED <<cycleCount, cycles>>
  /\ UNCHANGED <<isRunning, tradingInterval, lastDecision, portfolio, liveTimers,
                 starts, stopCalls, atStop>>
  /\ UNCHANGED <<storeVars, workflowVars, callVars>>

\* a scheduler that a failed portfolio fetch brings down: the failure of step 1
\* stops the engine and clears its timers
CyclePortfolioSettlesStopping(c) ==
  /\ cycles[c].pc = "fetchPortfolio"
  /\ \E outcome \in FetchOutcomes :
       IF outcome.ok
         THEN /\ portfolio' = Snapshot(outcome.balance, "cycle", c, 1)
              /\ cycles' = [cycles EXCEPT ![c].pc = "fetchMarketData"]
              /\ UNCHANGED <<isRunning, tradingInterval, liveTimers>>
         ELSE /\ cycles' = [cycles EXCEPT ![c].pc = "threw"]
              /\ isRunning' = FALSE
              /\ tradingInterval' = NoTimer
              /\ liveTimers' = {}
              /\ UNCHANGED portfolio
  /\ UNCHANGED <<cycleCount, lastDecision, starts, stopCalls, atStop>>
  /\ UNCHANGED <<storeVars, workflowVars, callVars>>

\* step 1 of cycle c settles: the snapshot is replaced and fetchMarketData
\* starts, or the failure leaves runTradingCycle through its catch block
CyclePortfolioSettles(c) ==
  /\ cycles[c].pc = "fetchPortfolio"
  /\ \E outcome \in FetchOutcomes :
       IF outcome.ok
         THEN /\ portfolio' = Snapshot(outcome.balance, "cycle", c, 1)
              /\ cycles' = [cycles EXCEPT ![c].pc = "fetchMarketData"]
         ELSE /\ cycles' = [cycles EXCEPT ![c].pc = "threw"]
              /\ UNCHANGED portfolio
  /\ UNCHANGED <<isRunning, tradingInterval, cycleCount, lastDecision, liveTimers,
                 starts, stopCalls, atStop>>
  /\ UNCHANGED <<storeVars, workflowVars, callVars>>

\* step 2 of cycle c settles: fetchMarketData cannot fail (a ticker request
\* that fails only leaves its ticker out); executeWorkflow is called
CycleMarketDataSettles(c) ==
  /\ cycles[c].pc = "fetchMarketData"
  /\ cycles' = [cycles EXCEPT ![c].pc = "executeWorkflow"]
  /\ UNCHANGED <<isRunning, tradingInterval, cycleCount, lastDecision, portfolio,
                 liveTimers, starts, stopCalls, atStop>>
  /\ UNCHANGED <<storeVars, workflowVars, callVars>>

\* what the collaborators of one workflow run do
AllFailed ==
  [strategies |-> Failed, news |-> Failed, stockData |-> Failed, sentiment |-> Failed,
   metrics |-> Failed, synthesis |-> SynthesisFailed, decide |-> DecideFailed]

AllReplied(decide) ==
  [strategies |-> Replied(MomentumText), news |-> Replied("BTC rallies"),
   stockData |-> Replied("BTC 30000"), sentiment |-> Replied("bullish"),
   metrics |-> Replied("RSI 70"),
   synthesis |-> SynthesisReplied(Str("Buy the breakout")), decide |-> decide]

\* the workflow runs the engine model draws from
EngineWorkflowOutcomes ==
  {AllFailed}
    \cup {AllReplied(DecideReplied(Str(x))) : x \in {BuyText, HoldText}}

\* runTradingCycle's return value reads this.lastDecision when it returns
ExecutedFlag(decision) == decision.action # Str("HOLD")

\* runTradingCycle once executeWorkflow has returned: the decision is recorded;
\* unless it is HOLD, executeDecision validates the order and calls placeOrder,
\* or returns without an order
RecordAndExecute(c, decision, execution) ==
  /\ lastDecision' = decision
  /\ IF decision.action # Str("HOLD") /\ execution.submit
       THEN cycles' = [cycles EXCEPT ![c].pc = "placeOrder",
                                     ![c].orders = cycles[c].orders + 1]
       ELSE cycles' = [cycles EXCEPT ![c].pc = "returned",
                                     ![c].executed = ExecutedFlag(decision)]

\* step 3 of cycle c settles: executeWorkflow returns its result, or its
\* exception leaves runTradingCycle through the catch block
CycleWorkflowSettles(c) ==
  /\ cycles[c].pc = "executeWorkflow"
  /\ \E outs \in EngineWorkflowOutcomes :
       \E ragResult \in {ExecuteWorkflow(strategies, outs)} :
         IF ragResult.threw
           THEN /\ cycles' = [cycles EXCEPT ![c].pc = "threw"]
                /\ UNCHANGED lastDecision
           ELSE RecordAndExecute(c, ragResult.value.decision,
                                 ExecuteDecision(ragResult.value.decision, portfolio))
  /\ UNCHANGED <<isRunning, tradingInterval, cycleCount, portfolio, liveTimers,
                 starts, stopCalls, atStop>>
  /\ UNCHANGED <<storeVars, workflowVars, callVars>>

\* what a placeOrder call can do: the exchange accepts the order, rejects it
\* (Success is false), or the request fails
PlaceOrderOutcomes == {"accepted", "rejected", "failed"}

\* an executeDecision that drops the snapshot when the order is not accepted
CyclePlaceOrderSettlesClearing(c) ==
  /\ cycles[c].pc = "placeOrder"
  /\ \E outcome \in PlaceOrderOutcomes :
       IF outcome = "accepted"
         THEN /\ cycles' = [cycles EXCEPT ![c].pc = "refreshPortfolio",
                                          ![c].accepted = TRUE]
              /\ UNCHANGED portfolio
         ELSE /\ cycles' = [cycles EXCEPT ![c].pc = "returned",
                                          ![c].executed = ExecutedFlag(lastDecision)]
              /\ portfolio' = NoPortfolio
  /\ UNCHANGED <<isRunning, tradingInterval, cycleCount, lastDecision,
                 liveTimers, starts, stopCalls, atStop>>
  /\ UNCHANGED <<storeVars, workflowVars, callVars>>

\* an executeDecision that sends the order once more when the request failed
CyclePlaceOrderSettlesRetrying(c) ==
  /\ cycles[c].pc = "placeOrder"
  /\ \E outcome \in PlaceOrderOutcomes :
       IF outcome = "accepted"
         THEN cycles' = [cycles EXCEPT ![c].pc = "refreshPortfolio",
                                       ![c].accepted = TRUE]
         ELSE IF outcome = "failed" /\ cycles[c].orders < 2
           THEN cycles' = [cycles EXCEPT ![c].orders = cycles[c].orders + 1]
           ELSE cycles' = [cycles EXCEPT ![c].pc = "returned",
                                         ![c].executed = ExecutedFlag(lastDecision)]
  /\ UNCHANGED <<isRunning, tradingInterval, cycleCount, lastDecision, portfolio,
                 liveTimers, starts, stopCalls, atStop>>
  /\ UNCHANGED <<storeVars, workflowVars, callVars>>

\* placeOrder settles for cycle c: after an accepted order the snapshot is
\* fetched again; otherwise executeDecision returns and the cycle completes
CyclePlaceOrderSettles(c) ==
  /\ cycles[c].pc = "placeOrder"
  /\ \E outcome \in PlaceOrderOutcomes :
       IF outcome = "accepted"
         THEN cycles' = [cycles EXCEPT ![c].pc = "refreshPortfolio",
                                       ![c].accepted = TRUE]
         ELSE cycles' = [cycles EXCEPT ![c].pc = "returned",
                                       ![c].executed = ExecutedFlag(lastDecision)]
  /\ UNCHANGED <<isRunning, tradingInterval, cycleCount, lastDecision, portfolio,
                 liveTimers, starts, stopCalls, atStop>>
  /\ UNCHANGED <<storeVars, workflowVars, callVars>>

\* the fetchPortfolio after an accepted order settles for cycle c: the snapshot
\* is replaced and executeDecision returns executed: true, or the failure is
\* caught by executeDecision, which returns executed: false with the error's
\* message; the cycle completes
CycleRefreshSettles(c) ==
  /\ cycles[c].pc = "refreshPortfolio"
  /\ \E outcome \in FetchOutcomes :
       /\ portfolio' = IF outcome.ok THEN Snapshot(outcome.balance, "cycle", c, 2)
                       ELSE portfolio
       /\ cycles' = [cycles EXCEPT ![c].pc = "returned",
                                   ![c].executed = ExecutedFlag(lastDecision),
                                   ![c].reported = outcome.ok]
  /\ UNCHANGED <<isRunning, tradingInterval, cycleCount, lastDecision, liveTimers,
                 starts, stopCalls, atStop>>
  /\ UNCHANGED <<storeVars, workflowVars, callVars>>

\* the continuation of cycle c after the call it awaits settles
CycleStep(c) ==
  \/ CyclePortfolioSettles(c)
  \/ CycleMarketDataSettles(c)
  \/ CycleWorkflowSettles(c)
  \/ CyclePlaceOrderSettles(c)
  \/ CycleRefreshSettles(c)

\* no library function is being called
NoCall == [op |-> "none"]

(***************************************************************************)
(* Calls of the exported functions of the risk manager and of               *)
(* normalizeDecision: the arguments are drawn in the initial state, the     *)
(* action applies the function to them.                                    *)
(***************************************************************************)
\* a balance below 1 in total, without a BTC entry
SmallBalance == [USD |-> Num(5)]

\* the validateOrder(order, portfolio) calls: a pair with or without separator,
\* amounts as numbers (in tenths) or numeric strings, absent fields
ValidateOrderCalls ==
  {[op |-> "validateOrder", done |-> FALSE, result |-> Return(Undef),
    order |-> [pair |-> pair, side |-> side, order_type |-> type,
               quantity |-> quantity, price |-> price],
    portfolio |-> [balance |-> balance]] :
     pair \in {Undef, Str("BTC/USD"), Str("BTCUSD"), Str("BTC")},
     side \in {Undef, Str("BUY"), Str("SELL")},
     type \in {Str("MARKET"), Str("LIMIT")},
     quantity \in {Undef, Num(0), Num(-10), Num(1), Num(5), Num(30), Str("0.5")},
     price \in {Undef, Num(0), Num(5), Num(1000), Str("100")},
     balance \in {FundedBalance, ZeroBalance, SmallBalance}}

\* validateOrder(order, portfolio) is applied
ValidateOrderCall ==
  /\ call.op = "validateOrder"
  /\ ~call.done
  /\ call' = [call EXCEPT !.done = TRUE,
                          !.result = ValidateOrder(call.order, call.portfolio)]
  /\ UNCHANGED <<engineVars, storeVars, workflowVars>>

\* the greatest common divisor of a >= 0 and b > 0: a fraction is kept in
\* lowest terms
RECURSIVE Gcd(_, _)
Gcd(a, b) == IF a = 0 THEN b ELSE Gcd(b % a, a)

\* calculatePositionSize without the cap of the maximum position size
CalculatePositionSizeUncapped(signal, balance, riskParams) ==
  LET Default(v, d) == IF v = Undef THEN d ELSE v
      Ratio(v) == [num |-> v.n, den |-> 10]
      Reduced(n, d) == LET g == Gcd(IF n < 0 THEN 0 - n ELSE n, d)
                       IN  [num |-> n \div g, den |-> d \div g]
      Mul(a, b) == Reduced(a.num * b.num, a.den * b.den)
      Div(a, b) == IF b.num > 0
                     THEN Reduced(a.num * b.den, a.den * b.num)
                     ELSE Reduced((0 - a.num) * b.den, a.den * (0 - b.num))
      Less(a, b) == a.num * b.den < b.num * a.den
      Min(a, b) == IF Less(b, a) THEN b ELSE a
      Max(a, b) == IF Less(a, b) THEN b ELSE a
      riskPerTrade == Default(riskParams.riskPerTrade, [num |-> 2, den |-> 100])
      maxPositionSize ==
        Default(riskParams.maxPositionSize, [num |-> MaxPositionSizeNum, den |-> MaxPositionSizeDen])
      confidence == Default(signal.confidence, Num(5))
      price == Ratio(ParseFloat(signal.price))
      adjustedRisk == Mul(riskPerTrade, Ratio(confidence))
      totalBalance == Ratio(SumBalances(balance, DOMAIN balance))
      riskAmount == Mul(totalBalance, adjustedRisk)
      maxQuantity == Div(Mul(totalBalance, maxPositionSize), price)
  IN  IF ~Truthy(signal.price)
        THEN Return([quantity |-> [num |-> 0, den |-> 1], reason |-> "Price not available",
                     riskAmount |-> [num |-> 0, den |-> 1], adjustedRisk |-> [num |-> 0, den |-> 1],
                     maxQuantity |-> [num |-> 0, den |-> 1]])
        ELSE Return([quantity |-> Max([num |-> 0, den |-> 1], Div(riskAmount, price)),
                     reason |-> "",
                     riskAmount |-> riskAmount, adjustedRisk |-> adjustedRisk,
                     maxQuantity |-> maxQuantity])

\* calculatePositionSize(signal, balance, riskParams).  Fractions are records
\* [num, den] with a positive denominator; the result without
\* a price has only quantity and reason (its other fields are not read)
CalculatePositionSize(signal, balance, riskParams) ==
  LET Default(v, d) == IF v = Undef THEN d ELSE v
      Ratio(v) == [num |-> v.n, den |-> 10]
      Reduced(n, d) == LET g == Gcd(IF n < 0 THEN 0 - n ELSE n, d)
                       IN  [num |-> n \div g, den |-> d \div g]
      Mul(a, b) == Reduced(a.num * b.num, a.den * b.den)
      Div(a, b) == IF b.num > 0
                     THEN Reduced(a.num * b.den, a.den * b.num)
                     ELSE Reduced((0 - a.num) * b.den, a.den * (0 - b.num))
      Less(a, b) == a.num * b.den < b.num * a.den
      Min(a, b) == IF Less(b, a) THEN b ELSE a
      Max(a, b) == IF Less(a, b) THEN b ELSE a
      riskPerTrade == Default(riskParams.riskPerTrade, [num |-> 2, den |-> 100])
      maxPositionSize ==
        Default(riskParams.maxPositionSize, [num |-> MaxPositionSizeNum, den |-> MaxPositionSizeDen])
      confidence == Default(signal.confidence, Num(5))
      price == Ratio(ParseFloat(signal.price))
      adjustedRisk == Mul(riskPerTrade, Ratio(confidence))
      totalBalance == Ratio(SumBalances(balance, DOMAIN balance))
      riskAmount == Mul(totalBalance, adjustedRisk)
      maxQuantity == Div(Mul(totalBalance, maxPositionSize), price)
  IN  IF ~Truthy(signal.price)
        THEN Return([quantity |-> [num |-> 0, den |-> 1], reason |-> "Price not available",
                     riskAmount |-> [num |-> 0, den |-> 1], adjustedRisk |-> [num |-> 0, den |-> 1],
                     maxQuantity |-> [num |-> 0, den |-> 1]])
        ELSE Return([quantity |-> Max([num |-> 0, den |-> 1], Min(Div(riskAmount, price), maxQuantity)),
                     reason |-> "",
                     riskAmount |-> riskAmount, adjustedRisk |-> adjustedRisk,
                     maxQuantity |-> maxQuantity])

\* the calculatePositionSize(signal, balance, riskParams) calls; an absent
\* risk parameter takes its value from the configuration
PositionSizeCalls ==
  {[op |-> "calculatePositionSize", done |-> FALSE, result |-> Return(Undef),
    signal |-> [confidence |-> confidence, price |-> price],
    balance |-> balance,
    riskParams |-> [riskPerTrade |-> riskPerTrade, maxPositionSize |-> maxPositionSize]] :
     confidence \in {Undef, Num(0), Num(5), Num(10)},
     price \in {Undef, Num(0), Num(5), Num(1000), Str("100")},
     balance \in {[USD |-> Num(10000)], FundedBalance, ZeroBalance, SmallBalance},
     riskPerTrade \in {Undef, [num |-> 2, den |-> 100], [num |-> 2, den |-> 10]},
     maxPositionSize \in {Undef, [num |-> 1, den |-> 10], [num |-> 1, den |-> 2]}}

\* calculatePositionSize(signal, balance, riskParams) is applied
CalculatePositionSizeCall ==
  /\ call.op = "calculatePositionSize"
  /\ ~call.done
  /\ call' = [call EXCEPT
                !.done = TRUE,
                !.result = CalculatePositionSize(call.signal, call.balance,
                                                 call.riskParams)]
  /\ UNCHANGED <<engineVars, storeVars, workflowVars>>

\* well-formed BUY and HOLD proposals with every kind of confidence, with and
\* without a price and an order type
ConfidenceProposals ==
  {[EmptyObject EXCEPT !.action = action, !.symbol = Str("BTC/USD"),
                       !.quantity = Num(5), !.confidence = confidence,
                       !.price = price, !.order_type = type] :
     action \in {Str(" buy "), Str("hold")},
     confidence \in {Undef, Null, Num(-2), Num(0), Num(8), Num(10), Num(15), NaN,
                     Infinity, Str("0.9"), Str("1.5"), Str("-1"), Str("abc"),
                     Bool(TRUE), EmptyArray},
     price \in {Undef, Num(1000)},
     type \in {Undef, Str("LIMIT")}}

\* proposals with something under the decision key: a proposal, a proposal
\* nested once more, an object without action, or a value that is no object
NestedProposals ==
  {[outer EXCEPT !.decision = inner] :
     outer \in {EmptyObject,
                [EmptyObject EXCEPT !.action = Str("hold")],
                [EmptyObject EXCEPT !.action = Str("Sell"), !.symbol = Str("BTC/USD"),
                                    !.quantity = Num(30)]},
     inner \in {Null, Str("0.5"), Num(5), EmptyArray, EmptyObject,
                [EmptyObject EXCEPT !.action = Str("hold")],
                [EmptyObject EXCEPT !.action = Str(" buy "), !.symbol = Str("BTC/USD"),
                                    !.quantity = Num(5)],
                [EmptyObject EXCEPT
                   !.decision = [EmptyObject EXCEPT !.action = Str(" buy "),
                                                    !.symbol = Str("BTC/USD"),
                                                    !.quantity = Num(5)]]}}

\* the normalizeDecision(decision) calls: the parsed replies above, and objects
\* with every combination of an action, a symbol or ticker and a quantity,
\* size or amount
NormalizeDecisionCalls ==
  {[op |-> "normalizeDecision", done |-> FALSE, result |-> Return(Undef),
    decision |-> decision] :
     decision \in
       {JSONParse(text).value : text \in ReplyTexts \ {ProseText, PrefixedText}}
         \cup {[EmptyObject EXCEPT !.action = action, !.symbol = symbol,
                                   !.ticker = ticker, !.quantity = quantity,
                                   !.size = size, !.amount = amount] :
                 action \in {Undef, Str(""), Str("   "), Str(" buy "), Str("Sell"),
                             Str("hold"), Str("wait"), Num(5)},
                 symbol \in {Undef, Str(""), Str("   "), Str("BTC/USD")},
                 ticker \in {Undef, Str(" BTC/USD ")},
                 quantity \in {Undef, Null, Num(0), Num(5), Num(-10), Infinity,
                               Bool(TRUE), Str("0.5"), Str("0.5 BTC"), Str("abc")},
                 size \in {Undef, Num(15)},
                 amount \in {Undef, Str("3")}}
         \cup ConfidenceProposals \cup NestedProposals}

\* normalizeDecision(decision) is applied
NormalizeDecisionCall ==
  /\ call.op = "normalizeDecision"
  /\ ~call.done
  /\ call' = [call EXCEPT !.done = TRUE, !.result = NormalizeDecision(call.decision)]
  /\ UNCHANGED <<engineVars, storeVars, workflowVars>>

\* the fraction n / d, d > 0, in lowest terms
LowestTerms(n, d) ==
  [num |-> n \div Gcd(IF n < 0 THEN 0 - n ELSE n, d),
   den |-> d \div Gcd(IF n < 0 THEN 0 - n ELSE n, d)]

CalculateStopLossBuyOnly(entryPrice, side, riskPercent) ==
  LowestTerms(entryPrice.n * ((IF riskPercent = Undef THEN 100 ELSE riskPercent.den)
                               - (IF riskPercent = Undef THEN 2 ELSE riskPercent.num)),
              10 * (IF riskPercent = Undef THEN 100 ELSE riskPercent.den))

\* calculateStopLoss(entryPrice, side, riskPercent = 0.02): the price is a
\* number in tenths, the risk a fraction, the level a fraction
CalculateStopLoss(entryPrice, side, riskPercent) ==
  LET risk == IF riskPercent = Undef THEN [num |-> 2, den |-> 100] ELSE riskPercent
  IN  IF side = Str("BUY")
        THEN LowestTerms(entryPrice.n * (risk.den - risk.num), 10 * risk.den)
        ELSE IF side = Str("SELL")
          THEN LowestTerms(entryPrice.n * (risk.den + risk.num), 10 * risk.den)
          ELSE LowestTerms(entryPrice.n, 10)

\* calculateTakeProfit(entryPrice, side, rewardRatio = 2): the ratio is a
\* number in tenths, the risk is fixed at 0.02
CalculateTakeProfit(entryPrice, side, rewardRatio) ==
  LET ratio == IF rewardRatio = Undef THEN Num(20) ELSE rewardRatio
  IN  IF side = Str("BUY")
        THEN LowestTerms(entryPrice.n * (1000 + 2 * ratio.n), 10 * 1000)
        ELSE IF side = Str("SELL")
          THEN LowestTerms(entryPrice.n * (1000 - 2 * ratio.n), 10 * 1000)
          ELSE LowestTerms(entryPrice.n, 10)

\* the calculateStopLoss and calculateTakeProfit calls
PriceLevelCalls ==
  {[op |-> "priceLevels", done |-> FALSE,
    result |-> [stopLoss |-> LowestTerms(0, 1), takeProfit |-> LowestTerms(0, 1)],
    entryPrice |-> entryPrice, side |-> side, riskPercent |-> riskPercent,
    rewardRatio |-> rewardRatio] :
     entryPrice \in {Num(1000), Num(500), Num(5), Num(0)},
     side \in {Str("BUY"), Str("SELL"), Str("HOLD"), Str("buy"), Undef},
     riskPercent \in {Undef, [num |-> 2, den |-> 100], [num |-> 5, den |-> 100],
                      [num |-> 1, den |-> 1]},
     rewardRatio \in {Undef, Num(10), Num(20), Num(30), Num(15)}}

\* calculateStopLoss(entryPrice, side, riskPercent) and
\* calculateTakeProfit(entryPrice, side, rewardRatio) are applied
PriceLevelCall ==
  /\ call.op = "priceLevels"
  /\ ~call.done
  /\ call' = [call EXCEPT
                !.done = TRUE,
                !.result = [stopLoss |-> CalculateStopLoss(call.entryPrice, call.side,
                                                           call.riskPercent),
                            takeProfit |-> CalculateTakeProfit(call.entryPrice, call.side,
                                                               call.rewardRatio)]]
  /\ UNCHANGED <<engineVars, storeVars, workflowVars>>

(***************************************************************************)
(* The Roostoo client: the request each function sends.  A payload is a    *)
(* function from keys to strings; a query string is the sequence of its    *)
(* key=value parts; an HMAC is kept as its algorithm, key and message.     *)
(***************************************************************************)
\* the place of a key in the order of Array.prototype.sort
KeyRank(key) ==
  CASE key = "limit" -> 1
    [] key = "order_id" -> 2
    [] key = "pair" -> 3
    [] key = "pending_only" -> 4
    [] key = "price" -> 5
    [] key = "quantity" -> 6
    [] key = "side" -> 7
    [] key = "stop_type" -> 8
    [] key = "timestamp" -> 9
    [] key = "type" -> 10
    [] OTHER -> 11

\* Object.keys(finalPayload).sort()
RECURSIVE SortedKeys(_)
SortedKeys(keys) ==
  IF keys = {} THEN <<>>
  ELSE LET first == CHOOSE k \in keys : \A other \in keys : KeyRank(k) <= KeyRank(other)
       IN  <<first>> \o SortedKeys(keys \ {first})

\* encodeURIComponent of the values the payloads hold
EncodeURIComponent(value) ==
  CASE value = "BTC/USD" -> "BTC%2FUSD"
    [] OTHER -> value

\* keys.map(key => `${key}=${encodeURIComponent(finalPayload[key])}`).join('&')
QueryString(payload, keys) ==
  [i \in 1..Len(keys) |->
     [key |-> keys[i], value |-> EncodeURIComponent(payload[keys[i]])]]

\* no payload
EmptyPayload == [k \in {} |-> ""]

\* generateSignature(queryString): the HMAC SHA256 of the query string under
\* the secret key, in hex
GenerateSignature(queryString) ==
  [algorithm |-> "sha256", key |-> "secretKey", message |-> queryString]

\* no MSG-SIGNATURE header
NoSignature == [algorithm |-> "none", key |-> "", message |-> <<>>]

\* getSignedHeaders(payload): the timestamp is added, the keys are sorted,
\* the query string is signed
GetSignedHeaders(payload, timestamp) ==
  LET finalPayload == ("timestamp" :> timestamp) @@ payload
      queryString == QueryString(finalPayload, SortedKeys(DOMAIN finalPayload))
  IN  [signature |-> GenerateSignature(queryString), queryString |-> queryString]

\* getTSCheckHeaders(payload): the timestamp is added, no header is made
GetTSCheckHeaders(payload, timestamp) ==
  LET finalPayload == ("timestamp" :> timestamp) @@ payload
      keys == IF "pair" \in DOMAIN payload THEN <<"pair", "timestamp">>
              ELSE <<"timestamp">>
  IN  [signature |-> NoSignature, queryString |-> QueryString(finalPayload, keys)]

\* a request handed to axios: what goes in the url, in the body and in the
\* MSG-SIGNATURE header
Request(method, path, query, body, signature) ==
  [method |-> method, path |-> path, query |-> query, body |-> body,
   signature |-> signature]

\* axios.post(url, queryString, {headers}) of a signed payload
SignedPost(path, payload, timestamp) ==
  Return(Request("POST", path, <<>>,
                 GetSignedHeaders(payload, timestamp).queryString,
                 GetSignedHeaders(payload, timestamp).signature))

\* getServerTime()
GetServerTime == Return(Request("GET", "/server_time", <<>>, <<>>, NoSignature))

\* getExchangeInfo()
GetExchangeInfo == Return(Request("GET", "/v3/exchange_info", <<>>, <<>>, NoSignature))

\* getMarketTicker(pair): the query string is sent only when a pair is given
GetMarketTicker(pair, timestamp) ==
  Return(Request("GET", "/v3/ticker",
                 IF pair # ""
                   THEN GetTSCheckHeaders("pair" :> pair, timestamp).queryString
                   ELSE <<>>,
                 <<>>, NoSignature))

\* getBalance()
GetBalance(timestamp) == SignedPost("/v3/balance", EmptyPayload, timestamp)

\* getPendingOrderCount()
GetPendingOrderCount(timestamp) ==
  SignedPost("/v3/pending_order_count", EmptyPayload, timestamp)

\* placeOrder(params): "" and 0 are the absent parameters; stop_type is left
\* to its default
PlaceOrder(params, timestamp) ==
  IF params.pair = "" \/ params.side = "" \/ params.order_type = "" \/ params.quantity = 0
    THEN Throw("Missing required parameters: pair, side, order_type, quantity")
  ELSE IF params.order_type = "LIMIT" /\ params.price = 0
    THEN Throw("LIMIT orders require a price parameter")
  ELSE SignedPost("/v3/place_order",
                  (IF params.order_type = "LIMIT" /\ params.price # 0
                     THEN "price" :> NumberToString(params.price)
                     ELSE EmptyPayload)
                  @@ ("pair" :> params.pair) @@ ("side" :> params.side)
                  @@ ("type" :> params.order_type)
                  @@ ("quantity" :> NumberToString(params.quantity))
                  @@ ("stop_type" :> "GTC"),
                  timestamp)

\* queryOrder(params)
QueryOrder(params, timestamp) ==
  SignedPost("/v3/query_order",
             (IF params.order_id # 0
                THEN "order_id" :> NumberToString(params.order_id)
              ELSE IF params.pair # ""
                THEN ("pair" :> params.pair)
                     @@ (IF params.pending_only # "undefined"
                           THEN "pending_only" :> (IF params.pending_only = "true"
                                                     THEN "TRUE" ELSE "FALSE")
                           ELSE EmptyPayload)
              ELSE EmptyPayload)
             @@ (IF params.limit # 0 THEN "limit" :> NumberToString(params.limit)
                 ELSE EmptyPayload),
             timestamp)

\* cancelOrder(params)
CancelOrder(params, timestamp) ==
  SignedPost("/v3/cancel_order",
             IF params.order_id # 0 THEN "order_id" :> NumberToString(params.order_id)
             ELSE IF params.pair # "" THEN "pair" :> params.pair
             ELSE EmptyPayload,
             timestamp)

\* the functions of the client
RoostooFunctions ==
  {"getServerTime", "getExchangeInfo", "getMarketTicker", "getBalance",
   "getPendingOrderCount", "placeOrder", "queryOrder", "cancelOrder"}

\* the function fn of the client applied to its parameters
RoostooRequest(fn, params, timestamp) ==
  CASE fn = "getServerTime" -> GetServerTime
    [] fn = "getExchangeInfo" -> GetExchangeInfo
    [] fn = "getMarketTicker" -> GetMarketTicker(params.pair, timestamp)
    [] fn = "getBalance" -> GetBalance(timestamp)
    [] fn = "getPendingOrderCount" -> GetPendingOrderCount(timestamp)
    [] fn = "placeOrder" -> PlaceOrder(params, timestamp)
    [] fn = "queryOrder" -> QueryOrder(params, timestamp)
    [] OTHER -> CancelOrder(params, timestamp)

\* the calls of the client; a function reads the parameters it has
RoostooCalls ==
  {[op |-> "roostoo", done |-> FALSE, result |-> Return(Undef), fn |-> fn,
    params |-> [pair |-> pair, side |-> side, order_type |-> type,
                quantity |-> quantity, price |-> price, order_id |-> id,
                pending_only |-> pending, limit |-> 0],
    timestamp |-> "1700000000000"] :
     fn \in RoostooFunctions,
     pair \in {"", "BTC/USD"},
     side \in {"", "BUY"},
     type \in {"MARKET", "LIMIT"},
     quantity \in {0, 5},
     price \in {0, 1000},
     id \in {0, 420},
     pending \in {"undefined", "true"}}

\* a function of the client is applied
RoostooCall ==
  /\ call.op = "roostoo"
  /\ ~call.done
  /\ call' = [call EXCEPT !.done = TRUE,
                          !.result = RoostooRequest(call.fn, call.params, call.timestamp)]
  /\ UNCHANGED <<engineVars, storeVars, workflowVars>>

(***************************************************************************)
(* TradingEngine.fetchMarketData: one ticker request per symbol, all in     *)
(* flight together; tickerOutcomes gives how the request for each symbol    *)
(* settles.                                                                 *)
(***************************************************************************)
\* the response body of a ticker request for one pair
Ticker(pair) == [t |-> "ticker", n |-> 0, s |-> pair]

\* an array of symbols
SymbolList(items) == [t |-> "array", items |-> items]

\* the default of the symbols parameter
DefaultSymbols == SymbolList(<<"BTC/USD", "ETH/USD">>)

\* the pairs a ticker may be asked for
Pairs == {"BTC/USD", "ETH/USD", "SOL/USD"}

\* how getMarketTicker(pair) can settle: the body of the response (which may
\* be null or missing), or the error of a failed request
TickerOutcomes(pair) ==
  {Return(Ticker(pair)), Return(Null), Return(Undef), Throw("Network Error")}

\* Promise.all over the mapped requests, each with its own catch that
\* turns a failure into null
TickersOf(items, tickerOutcomes) ==
  [k \in 1..Len(items) |->
     IF tickerOutcomes[items[k]].threw THEN Null ELSE tickerOutcomes[items[k]].value]

\* tickers.filter(t => t !== null)
IsNotNull(ticker) == ticker # Null

\* a fetchMarketData whose requests have no catch of their own: one failed
\* request rejects Promise.all and the outer catch returns no ticker at all
FetchMarketDataFailingTogether(symbols, tickerOutcomes, dateNow) ==
  LET given == IF symbols.t = "undefined" THEN DefaultSymbols ELSE symbols
  IN  IF given.t # "array"
        THEN Return([tickers |-> <<>>, symbols |-> given, timestamp |-> dateNow])
        ELSE IF \E k \in 1..Len(given.items) : tickerOutcomes[given.items[k]].threw
               THEN Return([tickers |-> <<>>, symbols |-> given, timestamp |-> dateNow])
               ELSE Return([tickers |-> SelectSeq(TickersOf(given.items, tickerOutcomes),
                                                  IsNotNull),
                            symbols |-> given, timestamp |-> dateNow])

\* fetchMarketData(symbols): symbols.map throws when symbols is not an array,
\* which the outer catch turns into a result without tickers
FetchMarketData(symbols, tickerOutcomes, dateNow) ==
  LET given == IF symbols.t = "undefined" THEN DefaultSymbols ELSE symbols
  IN  IF given.t # "array"
        THEN Return([tickers |-> <<>>, symbols |-> given, timestamp |-> dateNow])
        ELSE Return([tickers |-> SelectSeq(TickersOf(given.items, tickerOutcomes),
                                           IsNotNull),
                     symbols |-> given, timestamp |-> dateNow])

\* step 2 of runTradingCycle awaits fetchMarketData: a rejection would leave
\* the cycle through its catch, a result lets it build the workflow's context
AfterMarketData(result) == IF result.threw THEN "threw" ELSE "executeWorkflow"

FetchMarketDataCalls ==
  {[op |-> "fetchMarketData", done |-> FALSE, result |-> Return(Undef), next |-> "",
    symbols |-> symbols, tickerOutcomes |-> tickerOutcomes, dateNow |-> dateNow] :
     symbols \in {Undef, Null, SymbolList(<<>>), SymbolList(<<"SOL/USD">>),
                  SymbolList(<<"ETH/USD", "SOL/USD", "BTC/USD">>)},
     tickerOutcomes \in {outcomes \in [Pairs -> UNION {TickerOutcomes(pair) : pair \in Pairs}] :
                            \A pair \in Pairs : outcomes[pair] \in TickerOutcomes(pair)},
     dateNow \in {0, 1}}

\* fetchMarketData(symbols) is called and awaited as step 2 of a cycle does
FetchMarketDataCall ==
  /\ call.op = "fetchMarketData"
  /\ ~call.done
  /\ \E result \in {FetchMarketData(call.symbols, call.tickerOutcomes, call.dateNow)} :
       call' = [call EXCEPT !.done = TRUE, !.result = result,
                            !.next = AfterMarketData(result)]
  /\ UNCHANGED <<engineVars, storeVars, workflowVars>>

\* the texts generateEmbedding is applied to, as their stretches between
\* white space
MaxTokens == 3

TokenTexts ==
  UNION {[1..n -> {"market", "Buy!", "BTC/USD", "to", "a", "$$$$"}] : n \in 0..MaxTokens}

GenerateEmbeddingCalls ==
  {[op |-> "generateEmbedding", done |-> FALSE, result |-> Normalized(CountWords(<<>>)),
    tokens |-> tokens] : tokens \in TokenTexts}

\* generateEmbedding(text) is applied
GenerateEmbeddingCall ==
  /\ call.op = "generateEmbedding"
  /\ ~call.done
  /\ call' = [call EXCEPT !.done = TRUE, !.result = EmbedTokens(call.tokens)]
  /\ UNCHANGED <<engineVars, storeVars, workflowVars>>

(***************************************************************************)
(* Calls of the vector store: addStrategy at the current clock reading,     *)
(* searchSimilar, a restart of the process, and the clock advancing         *)
(* between calls.                                                           *)
(***************************************************************************)
\* the arguments the store is called with: a text and its metadata, one of
\* them with a property that is undefined
AddedStrategies ==
  {[strategy |-> MomentumText, metadata |-> [source |-> Str("test")]],
   [strategy |-> ReversionText, metadata |-> [source |-> Str("test")]],
   [strategy |-> QueryText,
    metadata |-> [source |-> Str("test"), context |-> Undef]]}

\* addStrategy(strategy, metadata): the entry is appended, saveStrategies
\* writes the file or fails to, and the id is returned in either case
AddStrategy ==
  /\ Len(strategies) < MaxStore
  /\ \E added \in AddedStrategies, writeOk \in BOOLEAN :
       LET strategyEntry == StrategyEntry(added.strategy, added.metadata, now)
       IN  /\ strategies' = Append(strategies, strategyEntry)
           /\ strategiesFile' =
                SaveStrategies(strategiesFile, Append(strategies, strategyEntry), writeOk)
           /\ call' = [op |-> "addStrategy", strategy |-> added.strategy,
                       writeOk |-> writeOk, result |-> Return(strategyEntry.id)]
  /\ UNCHANGED <<engineVars, workflowVars, now>>

\* the process starts again: the constructor empties the store and
\* loadStrategies reads the file it finds, which is the one last written, or
\* is gone, or is damaged
Restart ==
  /\ \E found \in {strategiesFile, MissingFile, GarbageFile} :
       /\ strategiesFile' = found
       /\ strategies' = LoadStrategies(<<>>, found)
       /\ call' = [op |-> "loadStrategies", found |-> found, result |-> Return(Undef)]
  /\ UNCHANGED <<engineVars, workflowVars, now>>

\* searchSimilar(query, topK)
SearchSimilarCall ==
  /\ \E query \in {QueryText, MomentumText}, topK \in 0..MaxTopK :
       call' = [op |-> "searchSimilar", query |-> query, topK |-> topK,
                result |-> SearchSimilar(strategies, query, topK)]
  /\ UNCHANGED <<engineVars, workflowVars, storeVars>>

\* a millisecond passes
ClockTick ==
  /\ now < MaxClock
  /\ now' = now + 1
  /\ UNCHANGED <<engineVars, workflowVars, strategies, strategiesFile, callVars>>

(***************************************************************************)
(* Specifications.                                                         *)
(***************************************************************************)
\* the state after construction, but for the library call
Constructed ==
  /\ isRunning = FALSE
  /\ tradingInterval = NoTimer
  /\ cycleCount = 0
  /\ lastDecision = Null
  /\ portfolio = NoPortfolio
  /\ liveTimers = {}
  /\ starts = [i \in 1..MaxStarts |-> "idle"]
  /\ stopCalls = 0
  /\ atStop = NeverStopped
  /\ cycles = [c \in 1..MaxCycles |-> IdleCycle]
  /\ strategies = <<>>
  /\ strategiesFile = MissingFile
  /\ now = 0
  /\ wf = IdleRun
  /\ runs = 0

Init == Constructed /\ call = NoCall

\* the engine: start(), stop(), the timer and the cycles
Next ==
  \/ StartCall
  \/ \E i \in 1..MaxStarts : ServerTimeSettles(i)
  \/ \E i \in 1..MaxStarts : InitPortfolioSettles(i)
  \/ Stop
  \/ \E t \in 1..MaxStarts : Tick(t)
  \/ \E c \in 1..MaxCycles : CyclePortfolioSettles(c)
  \/ \E c \in 1..MaxCycles : CycleMarketDataSettles(c)
  \/ \E c \in 1..MaxCycles : CycleWorkflowSettles(c)
  \/ \E c \in 1..MaxCycles : CyclePlaceOrderSettles(c)
  \/ \E c \in 1..MaxCycles : CycleRefreshSettles(c)

Spec == Init /\ [][Next]_vars

\* one executeWorkflow() call after another
NextWorkflow ==
  \/ WfCall
  \/ WfStrategiesSettle
  \/ WfMarketDataSettle
  \/ WfMetricsSettle
  \/ WfSynthesisSettle
  \/ WfDecisionSettle

SpecWorkflow == Init /\ [][NextWorkflow]_vars

\* one call of a library function on arguments drawn from the sets above
InitCalls ==
  /\ Constructed
  /\ call \in (ValidateOrderCalls \cup PositionSizeCalls \cup NormalizeDecisionCalls
                \cup GenerateEmbeddingCalls \cup PriceLevelCalls \cup RoostooCalls
                \cup FetchMarketDataCalls)

NextCalls ==
  \/ ValidateOrderCall
  \/ CalculatePositionSizeCall
  \/ NormalizeDecisionCall
  \/ GenerateEmbeddingCall
  \/ PriceLevelCall
  \/ RoostooCall
  \/ FetchMarketDataCall

SpecCalls == InitCalls /\ [][NextCalls]_vars

\* the calls of the vector store
NextStore ==
  \/ AddStrategy
  \/ SearchSimilarCall
  \/ ClockTick

\* the vector store across restarts of the process
NextStartup ==
  \/ AddStrategy
  \/ Restart
  \/ ClockTick

SpecStore == Init /\ [][NextStore]_vars

SpecStartup == Init /\ [][NextStartup]_vars

(***************************************************************************)
(* Properties of the engine, checked under Spec.                           *)
(***************************************************************************)
\* C1: in every reachable state at most one trading cycle is in flight (a
\* tick that fires while a cycle's work is outstanding starts no second one)
C1_SingleActiveCycle == Cardinality(InFlight) <= 1

\* C2: once two start() calls made in a row, with no stop() and no failed
\* initialization, have both settled, the engine is Running with exactly one
\* timer armed, and the second call was a no-op
C2_StartTwice ==
  (/\ StartsMade = {1, 2}
   /\ stopCalls = 0
   /\ starts[1] \in {"returned", "noop"}
   /\ starts[2] \in {"returned", "noop"})
    => (/\ isRunning
        /\ Cardinality(liveTimers) = 1
        /\ starts[2] = "noop")

\* C6: a cycle sends its placeOrder request only in the step that records a
\* BUY or SELL decision whose order validateOrder accepts against the snapshot
\* held at that moment
C6_OrderOnlyIfValid ==
  [][\A c \in 1..MaxCycles :
       (cycles[c].pc # "placeOrder" /\ cycles'[c].pc = "placeOrder") =>
         /\ cycles[c].pc = "executeWorkflow"
         /\ lastDecision'.action \in {Str("BUY"), Str("SELL")}
         /\ ~ValidateAgainst(BuildOrder(lastDecision'), portfolio).threw
         /\ ValidateAgainst(BuildOrder(lastDecision'), portfolio).value.valid]_vars

\* a cycle has sent the order of a BUY decision that was validated against a
\* funded snapshot, while another cycle got a HOLD decision and sent none
C6_Witness ==
  \E c, d \in 1..MaxCycles :
    /\ cycles[c].pc = "placeOrder"
    /\ lastDecision.action = Str("BUY")
    /\ portfolio.balance = FundedBalance
    /\ cycles[d].pc = "returned"
    /\ ~cycles[d].executed

\* C7: the step in which a start() call fails leaves the engine Stopped with
\* no timer armed, fires no cycle and leaves the cycle counter unchanged
C7_FailedStartLeavesStopped ==
  [][\A i \in 1..MaxStarts :
       (starts[i] # "threw" /\ starts'[i] = "threw") =>
         /\ ~isRunning'
         /\ liveTimers' = {}
         /\ tradingInterval' = NoTimer
         /\ cycleCount' = cycleCount
         /\ cycles' = cycles]_vars

\* C8: stop() on a Running engine clears the timer it holds and the engine is
\* Stopped; stop() on a Stopped engine changes no engine state; and from a
\* stop() that stopped the engine until start() is called again, no timer
\* tick can start a cycle (no timer is live while the engine is Running)
C8_StopDisarms ==
  [][/\ (stopCalls' # stopCalls /\ isRunning) =>
          /\ ~isRunning'
          /\ tradingInterval' = NoTimer
          /\ tradingInterval \notin liveTimers'
     /\ (stopCalls' # stopCalls /\ ~isRunning) =>
          UNCHANGED <<isRunning, tradingInterval, cycleCount, lastDecision,
                      portfolio, liveTimers, cycles>>
     /\ (atStop'.stopped /\ StartsMade' = atStop'.starts) =>
          ~(isRunning' /\ liveTimers' # {})]_vars

\* C9: stop() changes no cycle, no decision and no snapshot, and every cycle
\* in flight can take its next step whether the engine is Running or Stopped
C9_StopDoesNotAbort ==
  /\ [](\A c \in InFlight : ENABLED CycleStep(c))
  /\ [][stopCalls' # stopCalls =>
          /\ cycles' = cycles
          /\ lastDecision' = lastDecision
          /\ portfolio' = portfolio]_vars

\* the only start() call made has returned and stop() has stopped the engine
\* while cycle 1 awaited its decision; the engine still Stopped, cycle 1 has
\* since recorded a BUY decision, had its order accepted and replaced the
\* snapshot with the one fetched after the order
C9_Witness ==
  /\ StartsMade = {1}
  /\ starts[1] = "returned"
  /\ ~isRunning
  /\ atStop.stopped
  /\ 1 \in atStop.cycles
  /\ cycleCount = 1
  /\ cycles[1].pc = "returned"
  /\ cycles[1].executed
  /\ lastDecision.action = Str("BUY")
  /\ portfolio = Snapshot(FundedBalance, "cycle", 1, 2)

\* C10: the cycle counter starts at 0; a step changes it only by adding 1, and
\* does so exactly when a cycle is begun, which then awaits its first fetch
C10_CycleCounter ==
  /\ cycleCount = 0
  /\ [][/\ cycleCount' \in {cycleCount, cycleCount + 1}
        /\ \A c \in 1..MaxCycles :
             (cycles[c].pc = "idle" /\ cycles'[c].pc # "idle") <=>
               (cycleCount' = cycleCount + 1 /\ c = cycleCount')
        /\ \A c \in 1..MaxCycles :
             (cycles[c].pc = "idle" /\ cycles'[c].pc # "idle") =>
               cycles'[c].pc = "fetchPortfolio"]_vars

\* the first cycle failed at its portfolio fetch and was counted; stop() then
\* stopped the engine and a start() call made after it has begun cycle 2
C10_Witness ==
  /\ cycleCount = 2
  /\ cycles[1].pc = "threw"
  /\ atStop.stopped
  /\ 2 \notin atStop.starts
  /\ starts[2] = "returned"
  /\ cycles[2].pc = "fetchPortfolio"

\* C11: the step in which a cycle fails with an exception changes neither the
\* running flag nor the timers nor lastDecision; lastDecision changes only in
\* the step in which a cycle receives its decision; and while the engine is
\* Running after a failed cycle, a tick of an armed timer begins a new cycle
C11_FailedCycleAbsorbed ==
  /\ [][/\ \A c \in 1..MaxCycles :
             (cycles[c].pc # "threw" /\ cycles'[c].pc = "threw") =>
               /\ isRunning' = isRunning
               /\ tradingInterval' = tradingInterval
               /\ liveTimers' = liveTimers
               /\ lastDecision' = lastDecision
        /\ lastDecision' # lastDecision =>
             \E c \in 1..MaxCycles :
               /\ cycles[c].pc = "executeWorkflow"
               /\ cycles'[c].pc \in {"placeOrder", "returned"}]_vars
  /\ []((/\ \E c \in 1..MaxCycles : cycles[c].pc = "threw"
         /\ isRunning
         /\ cycleCount < MaxCycles)
          => \A t \in liveTimers : ENABLED (Tick(t) /\ cycleCount' = cycleCount + 1))

\* cycle 1 obtained a BUY decision and completed, cycle 2 then failed at its
\* portfolio fetch: the engine is Running, its timer is armed and lastDecision
\* is still the decision of cycle 1
C11_Witness ==
  /\ cycles[1].pc = "returned"
  /\ cycles[1].executed
  /\ cycles[2].pc = "threw"
  /\ isRunning
  /\ tradingInterval \in liveTimers
  /\ lastDecision # Null
  /\ lastDecision.action = Str("BUY")

\* C29: the snapshot is replaced by the one a cycle fetches in its first step
\* and by the one it fetches after its order was accepted, each time as a
\* whole; the step in which executeDecision ends without an accepted order
\* (validation or the exchange rejected it) leaves the snapshot as it is, and
\* so does every other step of a cycle
C29_SnapshotReplaced ==
  [][\A c \in 1..MaxCycles :
       /\ (cycles[c].pc = "fetchPortfolio" /\ cycles'[c].pc = "fetchMarketData") =>
            \E balance \in Balances : portfolio' = Snapshot(balance, "cycle", c, 1)
       /\ (cycles[c].pc # "refreshPortfolio" /\ cycles'[c].pc = "refreshPortfolio") =>
            cycles[c].pc = "placeOrder"
       /\ (cycles[c].pc = "refreshPortfolio" /\ cycles'[c].pc # "refreshPortfolio") =>
            \/ \E balance \in Balances : portfolio' = Snapshot(balance, "cycle", c, 2)
            \/ portfolio' = portfolio
       /\ (cycles[c].pc \in {"fetchMarketData", "executeWorkflow", "placeOrder"}
           /\ cycles'[c].pc # cycles[c].pc) =>
            portfolio' = portfolio
       /\ (cycles[c].pc = "fetchPortfolio" /\ cycles'[c].pc = "threw") =>
            portfolio' = portfolio]_vars

\* the only cycle fetched a snapshot without funds, got a BUY decision, had
\* its order rejected by validateOrder and returned: the snapshot is still
\* the one of its first step
C29_Witness ==
  /\ cycleCount = 1
  /\ cycles[1].pc = "returned"
  /\ lastDecision.action = Str("BUY")
  /\ portfolio = Snapshot(ZeroBalance, "cycle", 1, 1)

\* C34: at most one interval timer is live, and none while the engine is
\* Stopped, whatever the order of the start() and stop() calls and of the
\* completions of their initializations
C34_OneTimer ==
  /\ Cardinality(liveTimers) <= 1
  /\ ~isRunning => liveTimers = {}

\* C35: after a stop() that stopped the engine, and as long as no start() call
\* has been made since, the engine is Stopped and no step switches it to
\* Running or begins a cycle
C35_StaysStopped ==
  /\ [](atStop.stopped /\ StartsMade = atStop.starts => ~isRunning)
  /\ [][(atStop.stopped /\ StartsMade = atStop.starts /\ StartsMade' = StartsMade) =>
          /\ ~isRunning'
          /\ cycleCount' = cycleCount]_vars

\* C36: once executeDecision has returned to a cycle, it has reported
\* executed: true exactly when the exchange accepted the cycle's order
C36_ReportsAcceptedOrder ==
  \A c \in 1..MaxCycles :
    cycles[c].pc = "returned" => (cycles[c].reported <=> cycles[c].accepted)

\* C37: a cycle returns executed: true only if the exchange accepted an order
\* of that cycle
C37_ExecutedMeansAccepted ==
  \A c \in 1..MaxCycles :
    (cycles[c].pc = "returned" /\ cycles[c].executed) => cycles[c].accepted

\* C38: in the step in which a cycle validates its order (it has received a
\* decision other than HOLD with a symbol and a quantity), the snapshot held
\* is the one this cycle fetched in its first step
C38_ValidatedAgainstOwnSnapshot ==
  [][\A c \in 1..MaxCycles :
       (/\ cycles[c].pc = "executeWorkflow"
        /\ cycles'[c].pc \in {"placeOrder", "returned"}
        /\ lastDecision'.action # Str("HOLD")
        /\ Truthy(lastDecision'.symbol)
        /\ Truthy(lastDecision'.quantity)) =>
         \E balance \in Balances : portfolio = Snapshot(balance, "cycle", c, 1)]_vars

\* the placeOrder calls made so far by the cycles 1..c
RECURSIVE OrdersSubmitted(_)
OrdersSubmitted(c) ==
  IF c = 0 THEN 0 ELSE cycles[c].orders + OrdersSubmitted(c - 1)

\* C39: the number of placeOrder calls made is at most the cycle counter: no
\* cycle has made more than one, and a cycle that has not begun has made none
C39_OrdersBoundedByCycles ==
  /\ OrdersSubmitted(MaxCycles) <= cycleCount
  /\ \A c \in 1..MaxCycles :
       /\ cycles[c].orders <= 1
       /\ c > cycleCount => cycles[c].orders = 0

\* two cycles have begun and each has submitted its one order; the exchange
\* has rejected the first
C39_Witness ==
  /\ cycleCount = 2
  /\ OrdersSubmitted(MaxCycles) = 2
  /\ cycles[1].pc = "returned"
  /\ ~cycles[1].accepted

(***************************************************************************)
(* Properties of the workflow, checked under SpecWorkflow.                 *)
(***************************************************************************)
\* C3: executeWorkflow never ends with an exception, and the result it
\* returns holds a decision whose action is BUY, SELL or HOLD
C3_AlwaysReturnsDecision ==
  /\ wf.pc # "threw"
  /\ wf.pc = "returned" =>
       /\ TypeOf(wf.result.decision) = "object"
       /\ wf.result.decision.action \in {Str("BUY"), Str("SELL"), Str("HOLD")}

\* a run in which every collaborator call failed has returned a decision
C3_Witness ==
  /\ wf.pc = "returned"
  /\ wf.failed = {"getTradingStrategies", "getFinancialNews", "getStockData",
                  "getMarketSentiment", "performCalculations", "synthesize",
                  "decide"}
  /\ wf.result.decision.action = Str("HOLD")

\* C4: once the decide call has settled with a failure, with a reply that
\* JSON.parse rejects, or with a reply that normalizeDecision rejects, the run
\* has returned (nothing was raised) a decision HOLD with confidence 0
C4_HoldOnFailure ==
  (/\ wf.decide # Undef
   /\ \/ ~wf.decide.ok
      \/ ParseDecision(wf.decide.reply).threw
      \/ NormalizeDecision(ParseDecision(wf.decide.reply).value).threw)
    => (/\ wf.pc = "returned"
        /\ wf.result.decision.action = Str("HOLD")
        /\ wf.result.decision.confidence = Num(0))

\* a run has returned after a reply that parses but names an unsupported action
C4_Witness ==
  /\ wf.pc = "returned"
  /\ wf.decide = DecideReplied(Str(WaitText))
  /\ wf.result.decision.action = Str("HOLD")
  /\ wf.result.decision.confidence = Num(0)

\* C31: the step in which the strategy-generation call settles with a failure
\* does not end the run with an exception: retrieveStrategies has returned
\* strategies found in the store (at most five), an empty newStrategies and
\* no other strategy, and neither the store nor its file has changed
C31_RetrieveFallsBack ==
  [][(wf.pc = "getTradingStrategies" /\ wf'.pc # "getTradingStrategies") =>
       /\ wf'.pc = "collectMarketData"
       /\ "getTradingStrategies" \in wf'.failed =>
            /\ wf'.strategies.newStrategies = ""
            /\ wf'.strategies.allStrategies = wf'.strategies.similarStrategies
            /\ Len(wf'.strategies.similarStrategies) <= 5
            /\ \A k \in 1..Len(wf'.strategies.similarStrategies) :
                 \E i \in 1..Len(strategies) :
                   strategies[i].strategy = wf'.strategies.similarStrategies[k]
            /\ strategies' = strategies
            /\ strategiesFile' = strategiesFile]_vars

\* in a run over a store that holds one strategy the strategy-generation call
\* failed: the run goes on with that strategy as the search result, no new
\* strategy and the store as it was
C31_Witness ==
  /\ wf.pc = "collectMarketData"
  /\ wf.failed = {"getTradingStrategies"}
  /\ Len(strategies) = 1
  /\ wf.strategies.similarStrategies = <<strategies[1].strategy>>
  /\ wf.strategies.newStrategies = ""

\* the store after one record with the given text was appended to `before`
GainedOne(before, after, text) ==
  /\ Len(after) = Len(before) + 1
  /\ SubSeq(after, 1, Len(before)) = before
  /\ after[Len(after)].strategy = text
  /\ after[Len(after)].metadata.source = Str("deepseek")
  /\ after[Len(after)].metadata.context = Str("Market data for BTC/USD")

\* C32: the store changes only in the step of a run in which the
\* strategy-generation call settles; when that call returned a non-empty text
\* the store is the old store followed by one record holding the text, the
\* source and the market conditions, and otherwise the store is unchanged
C32_OneRecordPerRun ==
  [][/\ strategies' # strategies =>
          (wf.pc = "getTradingStrategies" /\ wf'.pc = "collectMarketData")
     /\ (wf.pc = "getTradingStrategies" /\ wf'.pc = "collectMarketData") =>
          IF wf'.strategies.newStrategies # ""
            THEN GainedOne(strategies, strategies', wf'.strategies.newStrategies)
            ELSE strategies' = strategies]_vars

\* the second run has stored a second strategy after the first one
C32_Witness ==
  /\ runs = 2
  /\ wf.pc = "collectMarketData"
  /\ wf.strategies.newStrategies = "Mean reversion: sell ETH when RSI is high"
  /\ Len(strategies) = 2
  /\ strategies[1].strategy = "Momentum strategy: buy BTC on market breakout"
  /\ strategies[2].strategy = "Mean reversion: sell ETH when RSI is high"
  /\ strategies[2].metadata.context = Str("Market data for BTC/USD")

\* the three requests of collectMarketData
MarketDataRequests == {"getFinancialNews", "getStockData", "getMarketSentiment"}

\* C33: the step in which the three market-data requests settle never ends
\* the run with an exception, and when at least one of them failed the
\* collected news, stock data and sentiment are all the empty string
C33_CollectBlanksAll ==
  [][(wf.pc = "collectMarketData" /\ wf'.pc # "collectMarketData") =>
       /\ wf'.pc = "performCalculations"
       /\ (wf'.failed \cap MarketDataRequests # {}) =>
            /\ wf'.collected.news = Str("")
            /\ wf'.collected.stockData = Str("")
            /\ wf'.collected.sentiment = Str("")]_vars

\* only the stock-data request failed: the news and the sentiment that were
\* delivered are blank in the result too
C33_Witness ==
  /\ wf.pc = "performCalculations"
  /\ wf.failed = {"getStockData"}
  /\ wf.collected = [news |-> Str(""), stockData |-> Str(""), sentiment |-> Str("")]

\* C5: every decision a run returns has action BUY, SELL or HOLD; with BUY or
\* SELL a non-empty symbol and a quantity above 0; with HOLD the quantity 0
C5_DecisionInvariant ==
  wf.pc = "returned" =>
    LET d == wf.result.decision
    IN  /\ d.action \in {Str("BUY"), Str("SELL"), Str("HOLD")}
        /\ d.action \in {Str("BUY"), Str("SELL")} =>
             /\ TypeOf(d.symbol) = "string"
             /\ d.symbol.s # ""
             /\ d.quantity.t = "number"
             /\ d.quantity.n > 0
        /\ d.action = Str("HOLD") => d.quantity = Num(0)

(***************************************************************************)
(* Properties of the risk manager and of normalizeDecision, checked under   *)
(* SpecCalls.  The amounts of an order are read off its own fields: the     *)
(* quantity and the price in tenths, their product in hundredths; a price   *)
(* that is absent or 0 counts as not given.  In C12 the position size is    *)
(* the order value over the sum of the balances (over 1 when the sum is 0). *)
(***************************************************************************)
\* a validateOrder call that has returned
Validated == call.op = "validateOrder" /\ call.done /\ ~call.result.threw

\* the amount of currency number k (1: base, 2: quote) of the order's pair
\* that the portfolio holds, in tenths; 0 when the portfolio has none
AvailableOf(k) ==
  LET pair == call.order.pair
      parts == IF pair.t = "string" THEN SplitPair(pair.s) ELSE <<Undef, Undef>>
      held == BalanceOf(call.portfolio.balance, parts[k])
  IN  IF held.t = "number" THEN held.n ELSE 0

\* quantity x (price, or 1 when no price is given) exceeds the quote balance
BuyExceedsBalance ==
  /\ call.order.side = Str("BUY")
  /\ IsFinite(OrderValue(call.order))
  /\ OrderValue(call.order).n > 10 * AvailableOf(2)

\* quantity exceeds the base balance
SellExceedsBalance ==
  /\ call.order.side = Str("SELL")
  /\ IsFinite(ParseFloat(call.order.quantity))
  /\ ParseFloat(call.order.quantity).n > AvailableOf(1)

\* the sum of the balance amounts, 1 when the sum is 0, in tenths
PortfolioTotal ==
  LET sum == SumBalances(call.portfolio.balance, DOMAIN call.portfolio.balance).n
  IN  IF sum = 0 THEN 10 ELSE sum

\* orderValue / totalPortfolioValue <= maxPositionSize
WithinPositionLimit ==
  /\ IsFinite(OrderValue(call.order))
  /\ OrderValue(call.order).n * MaxPositionSizeDen
       <= MaxPositionSizeNum * 10 * PortfolioTotal

\* pair, side and quantity are present, quantity > 0 and the balance suffices
PresentAndFunded ==
  /\ Truthy(call.order.pair)
  /\ Truthy(call.order.side)
  /\ IsFinite(ParseFloat(call.order.quantity))
  /\ ParseFloat(call.order.quantity).n > 0
  /\ ~BuyExceedsBalance
  /\ ~SellExceedsBalance

\* a LIMIT order without a positive price
LimitWithoutPrice ==
  /\ call.order.order_type = Str("LIMIT")
  /\ ~(IsFinite(ParseFloat(call.order.price)) /\ ParseFloat(call.order.price).n > 0)

FlooredPortfolioValue ==
  LET sum == SumBalances(call.portfolio.balance, DOMAIN call.portfolio.balance).n
  IN  IF sum > 10 THEN sum ELSE 10

\* C13: an order validateOrder accepts has orderValue / max(sum of the balance
\* amounts, 1) <= maxPositionSize, where orderValue = quantity x (price, or 1)
C13_PositionSizeLimit ==
  (Validated /\ call.result.value.valid) =>
    /\ IsFinite(OrderValue(call.order))
    /\ OrderValue(call.order).n * MaxPositionSizeDen
         <= MaxPositionSizeNum * 10 * FlooredPortfolioValue

\* a BUY of 0.1 at 0.5 against a balance of 0.5 USD (a sum below 1) was
\* accepted, and is exactly at the limit of the sum
C13_Witness ==
  /\ Validated
  /\ call.result.value.valid
  /\ call.order.side = Str("BUY")
  /\ call.order.quantity = Num(1)
  /\ call.order.price = Num(5)
  /\ call.portfolio.balance = SmallBalance

\* an order validateOrder is to reject: its pair has no separator, or pair,
\* side or quantity is missing, or it is a LIMIT order without a positive price
ToBeRejected ==
  \/ ~Truthy(call.order.pair)
  \/ call.order.pair.s \notin {"BTC/USD", "ETH/USD"}
  \/ ~Truthy(call.order.side)
  \/ ~Truthy(call.order.quantity)
  \/ LimitWithoutPrice

\* C14: validateOrder never throws, and an order whose pair has no separator,
\* or that lacks pair, side or quantity, or a LIMIT order without a positive
\* price, gets the result valid:false with a reason
C14_RejectsWithoutThrowing ==
  (call.op = "validateOrder" /\ call.done) =>
    /\ ~call.result.threw
    /\ ToBeRejected =>
         /\ ~call.result.value.valid
         /\ call.result.value.reason # ""

\* C15: calculatePositionSize does not throw; without a price it returns
\* quantity 0 with a reason; with a price it returns adjustedRisk =
\* riskPerTrade x confidence, riskAmount = totalBalance x adjustedRisk and
\* quantity = max(0, min(riskAmount / price, totalBalance x maxPositionSize /
\* price)), and quantity x price <= totalBalance x maxPositionSize.  (An absent
\* confidence is 0.5, an absent risk parameter the configured one; amounts in
\* tenths, fractions compared by cross-multiplication, the price divided out.)
C15_PositionSize ==
  (call.op = "calculatePositionSize" /\ call.done) =>
    LET r == call.result.value
        rpt == IF call.riskParams.riskPerTrade = Undef
                 THEN [num |-> 2, den |-> 100] ELSE call.riskParams.riskPerTrade
        mp == IF call.riskParams.maxPositionSize = Undef
                THEN [num |-> 1, den |-> 10] ELSE call.riskParams.maxPositionSize
        conf == IF call.signal.confidence = Undef THEN 5 ELSE call.signal.confidence.n
        tb == SumBalances(call.balance, DOMAIN call.balance).n
        p == ParseFloat(call.signal.price).n
        riskFirst == r.riskAmount.num * 10 * mp.den <= tb * mp.num * r.riskAmount.den
        capFirst == tb * mp.num * r.riskAmount.den <= r.riskAmount.num * 10 * mp.den
    IN  /\ ~call.result.threw
        /\ r.quantity.num >= 0
        /\ IF call.signal.price \in {Undef, Num(0)}
             THEN r.quantity.num = 0 /\ r.reason # ""
             ELSE /\ r.adjustedRisk.num * rpt.den * 10 = rpt.num * conf * r.adjustedRisk.den
                  /\ r.riskAmount.num * 10 * r.adjustedRisk.den
                       = tb * r.adjustedRisk.num * r.riskAmount.den
                  /\ riskFirst =>
                       r.quantity.num * r.riskAmount.den * p
                         = r.riskAmount.num * 10 * r.quantity.den
                  /\ capFirst =>
                       r.quantity.num * mp.den * p = tb * mp.num * r.quantity.den
                  /\ r.quantity.num * p * mp.den <= tb * mp.num * r.quantity.den

\* the example of the spec: confidence 1 and price 100 with a balance of 1000
\* USD, riskPerTrade 0.02 and maxPositionSize 0.1 gave riskAmount 20 and
\* quantity 0.2 (below the cap of 1)
C15_Witness ==
  /\ call.op = "calculatePositionSize"
  /\ call.done
  /\ call.signal = [confidence |-> Num(10), price |-> Num(1000)]
  /\ call.balance = [USD |-> Num(10000)]
  /\ call.riskParams = [riskPerTrade |-> [num |-> 2, den |-> 100],
                        maxPositionSize |-> [num |-> 1, den |-> 10]]
  /\ call.result.value.riskAmount = [num |-> 20, den |-> 1]
  /\ call.result.value.quantity = [num |-> 1, den |-> 5]
  /\ call.result.value.maxQuantity = [num |-> 1, den |-> 1]

\* the action a proposal names, read off the way it is written: "" when it
\* names none or one that is not BUY, SELL or HOLD
WrittenAction ==
  LET action == Get(Candidate(call.decision), "action")
  IN  CASE action \in {Str(" buy "), Str("BUY")} -> "BUY"
        [] action \in {Str("Sell"), Str("SELL")} -> "SELL"
        [] action = Str("hold") -> "HOLD"
        [] OTHER -> ""

\* C16: normalizeDecision fails and returns no decision when the action is
\* missing, empty, blank or not one of BUY, SELL, HOLD; a decision it returns
\* carries the action trimmed and in upper case; a HOLD proposal is returned
C16_ActionNormalized ==
  (call.op = "normalizeDecision" /\ call.done) =>
    /\ WrittenAction = "" => (call.result.threw /\ call.result.value = Undef)
    /\ ~call.result.threw => call.result.value.action = Str(WrittenAction)
    /\ WrittenAction = "HOLD" => ~call.result.threw

\* the proposal {action: "wait"} of the spec's example was rejected as
\* unsupported
C16_Witness ==
  /\ call.op = "normalizeDecision"
  /\ call.done
  /\ call.decision = [EmptyObject EXCEPT !.action = Str("wait")]
  /\ call.result = Throw("Unsupported decision action")

\* the symbol a proposal names, trimmed: symbol, or ticker when there is no
\* symbol; "" when it names none
WrittenSymbol ==
  LET candidate == Candidate(call.decision)
  IN  IF candidate.symbol = Str("BTC/USD") THEN "BTC/USD"
      ELSE IF candidate.symbol \in {Undef, Str("")}
                /\ candidate.ticker = Str(" BTC/USD ") THEN "BTC/USD"
      ELSE ""

\* the quantity a proposal names, in tenths: the first of quantity, size and
\* amount that is there, a string read by its numeric prefix; 0 when it is
\* not a finite number
WrittenQuantity ==
  LET candidate == Candidate(call.decision)
      present == {v \in {"quantity", "size", "amount"} :
                    candidate[v] \notin {Undef, Null}}
      first == IF "quantity" \in present THEN candidate.quantity
               ELSE IF "size" \in present THEN candidate.size
               ELSE candidate.amount
  IN  CASE first.t = "number" -> first.n
        [] first \in {Str("0.5"), Str("0.5 BTC")} -> 5
        [] first = Str("3") -> 30
        [] OTHER -> 0

\* C17: for BUY and SELL normalizeDecision returns a decision exactly when
\* the proposal names a non-empty symbol (symbol or ticker) and a positive
\* finite quantity (quantity, size or amount); the decision then carries that
\* symbol and that quantity as a number, otherwise nothing is returned
C17_SymbolAndQuantity ==
  (call.op = "normalizeDecision" /\ call.done /\ WrittenAction \in {"BUY", "SELL"}) =>
    /\ ~call.result.threw <=> (WrittenSymbol # "" /\ WrittenQuantity > 0)
    /\ call.result.threw => call.result.value = Undef
    /\ ~call.result.threw =>
         /\ call.result.value.symbol = Str(WrittenSymbol)
         /\ call.result.value.quantity = Num(WrittenQuantity)

\* a SELL proposal naming its symbol as ticker " BTC/USD " and its quantity as
\* amount "3" was returned with symbol BTC/USD and quantity 3
C17_Witness ==
  /\ call.op = "normalizeDecision"
  /\ call.done
  /\ call.decision = [EmptyObject EXCEPT !.action = Str("Sell"),
                                         !.ticker = Str(" BTC/USD "),
                                         !.amount = Str("3")]
  /\ ~call.result.threw
  /\ call.result.value.action = Str("SELL")
  /\ call.result.value.symbol = Str("BTC/USD")
  /\ call.result.value.quantity = Num(30)


(***************************************************************************)
(* Properties of the vector store, checked under SpecStore.                *)
(***************************************************************************)
\* the similarity of each stored record to the query of the call
StoredSimilarity ==
  [p \in 1..Len(strategies) |->
     CosineSimilarity(GenerateEmbedding(call.query), strategies[p].embedding)]

\* the ways of placing the results of the call at distinct positions of the
\* store, each result on a record equal to it
Placements ==
  {f \in [1..Len(call.result) -> 1..Len(strategies)] :
     /\ \A a, b \in 1..Len(call.result) : a # b => f[a] # f[b]
     /\ \A a \in 1..Len(call.result) : strategies[f[a]] = call.result[a].entry}

\* C18: searchSimilar(query, k) returns at most k records of the store, each
\* with a similarity to the query above 0.1, in non-increasing order of
\* similarity, records of equal similarity in insertion order, and no stored
\* record left out is more similar to the query than a returned one
C18_SearchSimilarOrdered ==
  call.op = "searchSimilar" =>
    /\ Len(call.result) <= call.topK
    /\ \E sim \in {StoredSimilarity} : \E f \in Placements :
         /\ \A a \in 1..Len(call.result) :
              /\ call.result[a].similarity = sim[f[a]]
              /\ 100 * sim[f[a]][1] * sim[f[a]][1] > sim[f[a]][2]
              /\ sim[f[a]][1] > 0
         /\ \A a, b \in 1..Len(call.result) :
              a < b =>
                /\ ~SimGreater(sim[f[b]], sim[f[a]])
                /\ ~SimGreater(sim[f[a]], sim[f[b]]) => f[a] < f[b]
         /\ \A p \in 1..Len(strategies), a \in 1..Len(call.result) :
              (\A b \in 1..Len(call.result) : f[b] # p)
                => ~SimGreater(sim[p], sim[f[a]])

\* a search returned two records of equal similarity followed by a less
\* similar one, out of a store whose first record is the least similar
C18_Witness ==
  /\ call.op = "searchSimilar"
  /\ Len(call.result) = 3
  /\ ~SimGreater(call.result[1].similarity, call.result[2].similarity)
  /\ SimGreater(call.result[2].similarity, call.result[3].similarity)
  /\ call.result[3].entry = strategies[1]

\* C19: when the durable write fails addStrategy fails with a
\* PersistenceError, and the new record is nevertheless the last record of
\* the in-memory store, where searchSimilar finds it
C19_WriteFailureReported ==
  (call.op = "addStrategy" /\ ~call.writeOk) =>
    /\ call.result.threw
    /\ call.result.error = "PersistenceError"
    /\ Len(strategies) > 0
    /\ strategies[Len(strategies)].strategy = call.strategy
    /\ \E k \in 1..Len(strategies) :
         /\ k <= Len(SearchSimilar(strategies, call.strategy, Len(strategies)))
         /\ SearchSimilar(strategies, call.strategy, Len(strategies))[k].entry
              = strategies[Len(strategies)]

\* C20: the records of the store have pairwise distinct ids, also when they
\* were added within one millisecond, and a record added later has the
\* greater id
C20_IdsUniqueAndOrdered ==
  \A i, j \in 1..Len(strategies) : i < j => strategies[i].id < strategies[j].id

\* the record persisted is the record w of the store as JSON keeps it
PersistedAs(persisted, w) ==
  /\ persisted.id = w.id
  /\ persisted.strategy = w.strategy
  /\ persisted.embedding = w.embedding
  /\ \A f \in DOMAIN w.metadata :
       IF f \in DOMAIN persisted.metadata THEN persisted.metadata[f] = w.metadata[f]
       ELSE w.metadata[f] = Undef

\* position i of the store has a persisted backing
Persisted(i) ==
  /\ i <= Len(strategiesFile.log)
  /\ PersistedAs(strategiesFile.log[i], strategies[i])

\* C28 as stated: after any addStrategy calls, with writes succeeding or
\* failing, the store and the persisted log hold the same records, and a
\* search returns persisted records only
C28_AsStated ==
  /\ Len(strategiesFile.log) = Len(strategies)
  /\ \A i \in 1..Len(strategies) : Persisted(i)
  /\ call.op = "searchSimilar" =>
       \A k \in 1..Len(call.result) :
         \E i \in 1..Len(strategies) :
           strategies[i] = call.result[k].entry /\ Persisted(i)

\* C28: after any addStrategy calls no persisted record is missing from the
\* store (the log is the store's beginning); after a call whose write
\* succeeded the two hold the same records, and whenever they do a search
\* returns persisted records only
C28_PersistedIsPrefix ==
  /\ Len(strategiesFile.log) <= Len(strategies)
  /\ \A i \in 1..Len(strategiesFile.log) : Persisted(i)
  /\ (call.op = "addStrategy" /\ call.writeOk) =>
       Len(strategiesFile.log) = Len(strategies)
  /\ (call.op = "searchSimilar" /\ Len(strategiesFile.log) = Len(strategies)) =>
       \A k \in 1..Len(call.result) :
         \E i \in 1..Len(strategies) :
           strategies[i] = call.result[k].entry /\ Persisted(i)

\* the write of a third record succeeded: the file holds the three records
\* of the store
C28_Witness ==
  /\ call.op = "addStrategy"
  /\ call.writeOk
  /\ Len(strategies) = 3
  /\ Len(strategiesFile.log) = 3
  /\ strategies[2].id < strategies[3].id
  /\ strategies[1].strategy # strategies[2].strategy

(***************************************************************************)
(* Properties of the store's startup, checked under SpecStartup.           *)
(***************************************************************************)
\* the record r is the record w as it was persisted: w's id, text and
\* embedding, and those properties of w's metadata that are defined
RestoredFrom(r, w) ==
  /\ r.id = w.id
  /\ r.strategy = w.strategy
  /\ r.embedding = w.embedding
  /\ DOMAIN r.metadata \subseteq DOMAIN w.metadata
  /\ \A f \in DOMAIN w.metadata :
       IF f \in DOMAIN r.metadata THEN r.metadata[f] = w.metadata[f]
       ELSE w.metadata[f] = Undef

\* C21: after startup the store holds the records of the log last written to
\* the file, in the order they were added; it is empty when the file is
\* missing and when the file cannot be parsed
C21_StartupRestores ==
  call.op = "loadStrategies" =>
    /\ ~call.result.threw
    /\ call.found.kind \in {"missing", "garbage"} => strategies = <<>>
    /\ call.found.kind = "json" =>
         /\ Len(strategies) = Len(call.found.written)
         /\ \A i \in 1..Len(strategies) :
              RestoredFrom(strategies[i], call.found.written[i])

\* a startup restored a log of two different records, the second one written
\* with a metadata property that was undefined
C21_Witness ==
  /\ call.op = "loadStrategies"
  /\ call.found.kind = "json"
  /\ Len(strategies) = 2
  /\ strategies[1].strategy = MomentumText
  /\ strategies[2].strategy = QueryText
  /\ strategies[1].id < strategies[2].id
  /\ "context" \in DOMAIN call.found.written[2].metadata

(***************************************************************************)
(* Properties of generateEmbedding, checked under SpecCalls.               *)
(***************************************************************************)
\* the text of the call has a run of letters, digits and underscores longer
\* than 2 characters
HasCountedToken ==
  \E i \in 1..Len(call.tokens) :
    call.tokens[i] \in {"market", "Buy!", "BTC/USD"}

\* the square of the L2 norm of the vector returned by the call, as a fraction
NormSquared ==
  <<SumOver({b \in DOMAIN call.result.counts : call.result.counts[b] # 0},
            [b \in DOMAIN call.result.counts |->
               call.result.counts[b] * call.result.counts[b]]),
    call.result.magnitude2>>

\* the reorderings of the text of the call
Reordered ==
  {[i \in 1..Len(call.tokens) |-> call.tokens[p[i]]] :
     p \in Permutations(1..Len(call.tokens))}

\* C22: generateEmbedding returns 128 elements, the same for every reordering
\* of the text's tokens; the vector has L2 norm 1 when the text has a token
\* longer than 2 characters and is the zero vector otherwise
C22_EmbeddingNormalized ==
  (call.op = "generateEmbedding" /\ call.done) =>
    /\ DOMAIN call.result.counts = 0..127
    /\ \A text \in Reordered : EmbedTokens(text) = call.result
    /\ HasCountedToken => NormSquared[1] = NormSquared[2]
    /\ ~HasCountedToken => \A b \in 0..127 : call.result.counts[b] = 0

\* the embedding of "BTC/USD to market": three counted tokens, norm 1
C22_Witness ==
  /\ call.op = "generateEmbedding"
  /\ call.done
  /\ call.tokens = <<"BTC/USD", "to", "market">>
  /\ NormSquared = <<3, 3>>

(***************************************************************************)
(* Properties of the price levels, checked under SpecCalls.                *)
(***************************************************************************)
\* the risk of the call in hundredths: 0.02 when none is given
RiskHundredths ==
  CASE call.riskPercent = Undef -> 2
    [] call.riskPercent = [num |-> 2, den |-> 100] -> 2
    [] call.riskPercent = [num |-> 5, den |-> 100] -> 5
    [] OTHER -> 100

\* the reward ratio of the call in tenths: 2 when none is given
RewardTenths == IF call.rewardRatio = Undef THEN 20 ELSE call.rewardRatio.n

\* the fraction level equals thousandths / 10000 (an entry price in tenths
\* times a factor in thousandths)
IsLevel(level, thousandths) == level.num * 10000 = thousandths * level.den

\* C24: for BUY the stop-loss is entryPrice * (1 - riskPercent) and the
\* take-profit entryPrice * (1 + 0.02 * rewardRatio); for SELL the signs are
\* reversed; for any other side the stop-loss is the entry price; so
\* calculateStopLoss(100, BUY, 0.02) = 98 and calculateTakeProfit(100, BUY, 2) = 104
C24_PriceLevels ==
  (call.op = "priceLevels" /\ call.done) =>
    /\ call.side = Str("BUY") =>
         /\ IsLevel(call.result.stopLoss, call.entryPrice.n * (1000 - 10 * RiskHundredths))
         /\ IsLevel(call.result.takeProfit, call.entryPrice.n * (1000 + 2 * RewardTenths))
    /\ call.side = Str("SELL") =>
         /\ IsLevel(call.result.stopLoss, call.entryPrice.n * (1000 + 10 * RiskHundredths))
         /\ IsLevel(call.result.takeProfit, call.entryPrice.n * (1000 - 2 * RewardTenths))
    /\ call.side \notin {Str("BUY"), Str("SELL")} =>
         IsLevel(call.result.stopLoss, call.entryPrice.n * 1000)
    /\ (call.entryPrice = Num(1000) /\ call.side = Str("BUY")
        /\ call.riskPercent = [num |-> 2, den |-> 100] /\ call.rewardRatio = Num(20)) =>
         /\ call.result.stopLoss = [num |-> 98, den |-> 1]
         /\ call.result.takeProfit = [num |-> 104, den |-> 1]

\* calculateStopLoss(100, SELL, 0.05) = 105 and
\* calculateTakeProfit(100, SELL, 3) = 94 were computed
C24_Witness ==
  /\ call.op = "priceLevels"
  /\ call.done
  /\ call.entryPrice = Num(1000)
  /\ call.side = Str("SELL")
  /\ call.riskPercent = [num |-> 5, den |-> 100]
  /\ call.rewardRatio = Num(30)
  /\ call.result.stopLoss = [num |-> 105, den |-> 1]
  /\ call.result.takeProfit = [num |-> 94, den |-> 1]

(***************************************************************************)
(* Properties of fetchMarketData, checked under SpecCalls.                 *)
(***************************************************************************)
\* the symbols a call asks tickers for
AskedSymbols ==
  IF call.symbols.t = "array" THEN call.symbols.items ELSE <<"BTC/USD", "ETH/USD">>

\* C30: fetchMarketData always returns a result and the cycle awaiting it goes
\* on to the decision step; the ticker of a symbol whose request failed is
\* not in the result, and the ticker of every symbol whose request delivered
\* one is
C30_FetchMarketDataNeverFails ==
  (call.op = "fetchMarketData" /\ call.done) =>
    /\ ~call.result.threw
    /\ call.next = "executeWorkflow"
    /\ call.symbols.t \in {"undefined", "array"} =>
         \A k \in 1..Len(AskedSymbols) :
           /\ call.tickerOutcomes[AskedSymbols[k]].threw =>
                \A j \in 1..Len(call.result.value.tickers) :
                  call.result.value.tickers[j] # Ticker(AskedSymbols[k])
           /\ call.tickerOutcomes[AskedSymbols[k]] = Return(Ticker(AskedSymbols[k])) =>
                \E j \in 1..Len(call.result.value.tickers) :
                  call.result.value.tickers[j] = Ticker(AskedSymbols[k])

\* of the three tickers asked for, the request for ETH/USD failed: the result
\* holds the tickers of SOL/USD and BTC/USD, and the cycle goes on
C30_Witness ==
  /\ call.op = "fetchMarketData"
  /\ call.done
  /\ call.symbols = SymbolList(<<"ETH/USD", "SOL/USD", "BTC/USD">>)
  /\ call.tickerOutcomes["ETH/USD"].threw
  /\ call.result.value.tickers = <<Ticker("SOL/USD"), Ticker("BTC/USD")>>
  /\ call.next = "executeWorkflow"

(***************************************************************************)
(* Properties of the Roostoo client, checked under SpecCalls.              *)
(***************************************************************************)
\* what the request of the call sends: its url query or its body
PayloadSent ==
  IF call.result.value.method = "GET" THEN call.result.value.query
  ELSE call.result.value.body

\* C23: every request the client sends, whichever of its eight functions
\* makes it, carries an HMAC SHA256 signature of the payload it sends
C23_EveryRequestSigned ==
  (call.op = "roostoo" /\ call.done /\ ~call.result.threw) =>
    call.result.value.signature =
      [algorithm |-> "sha256", key |-> "secretKey", message |-> PayloadSent]

\* C40: a queryOrder call that was given pending_only: true sends
\* pending_only=TRUE to the exchange, whatever its other parameters are (the
\* call fetchPortfolio makes gives neither a pair nor an order id)
C40_PendingOnlyForwarded ==
  (/\ call.op = "roostoo"
   /\ call.done
   /\ call.fn = "queryOrder"
   /\ call.params.pending_only = "true") =>
    \E i \in 1..Len(call.result.value.body) :
      call.result.value.body[i] = [key |-> "pending_only", value |-> "TRUE"]

(***************************************************************************)
(* Further properties of normalizeDecision, checked under SpecCalls.       *)
(***************************************************************************)
\* the confidence a proposal states, in tenths, read off the way it is
\* written; "none" when it states none or one that is no finite number
WrittenConfidence ==
  LET confidence == Get(Candidate(call.decision), "confidence")
  IN  CASE confidence = Num(-2) -> "-0.2"
        [] confidence = Str("-1") -> "-1"
        [] confidence = Num(0) -> "0"
        [] confidence = Num(8) -> "0.8"
        [] confidence \in {Num(9), Str("0.9")} -> "0.9"
        [] confidence = Num(10) -> "1"
        [] confidence \in {Num(15), Str("1.5")} -> "1.5"
        [] OTHER -> "none"

\* C25: a decision normalizeDecision returns has a confidence that is a
\* number between 0 and 1: 1 for a stated value above 1, 0 for one below 0,
\* 0 when the proposal states none or one that is no finite number, and the
\* stated value otherwise
C25_ConfidenceClamped ==
  (call.op = "normalizeDecision" /\ call.done /\ ~call.result.threw) =>
    /\ call.result.value.confidence.t = "number"
    /\ call.result.value.confidence.n \in 0..10
    /\ WrittenConfidence = "1.5" => call.result.value.confidence = Num(10)
    /\ WrittenConfidence \in {"-0.2", "-1"} => call.result.value.confidence = Num(0)
    /\ WrittenConfidence = "none" => call.result.value.confidence = Num(0)
    /\ WrittenConfidence = "0.8" => call.result.value.confidence = Num(8)
    /\ WrittenConfidence = "0.9" => call.result.value.confidence = Num(9)
    /\ WrittenConfidence = "1" => call.result.value.confidence = Num(10)
    /\ WrittenConfidence = "0" => call.result.value.confidence = Num(0)

\* the spec's example: {action: "buy", symbol: "BTC/USD", quantity: "0.5",
\* confidence: 1.5} was returned as BUY 0.5 with confidence 1
C25_Witness ==
  /\ call.op = "normalizeDecision"
  /\ call.done
  /\ call.decision = JSONParse(BuyText).value
  /\ ~call.result.threw
  /\ call.result.value.action = Str("BUY")
  /\ call.result.value.quantity = Num(5)
  /\ call.result.value.confidence = Num(10)

\* C26: a record normalizeDecision returns carries the fields action, symbol,
\* quantity, confidence and reasoning and no other field of the proposal,
\* such as price or order_type
C26_OnlyCanonicalFields ==
  (call.op = "normalizeDecision" /\ call.done /\ ~call.result.threw) =>
    \A f \in DOMAIN call.result.value
             \ {"t", "action", "symbol", "quantity", "confidence", "reasoning"} :
      call.result.value[f] = Undef

\* the object the claim has validated: the one under the proposal's decision
\* key when that key holds an object or an array, else the proposal
ValidatedObject ==
  IF call.decision.decision.t \in {"object", "array"} THEN call.decision.decision
  ELSE call.decision

\* the action written in the object o: "" when it has none or one that is not
\* BUY, SELL or HOLD
ActionWrittenIn(o) ==
  IF o.t # "object" THEN ""
  ELSE CASE o.action \in {Str(" buy "), Str("BUY")} -> "BUY"
         [] o.action \in {Str("Sell"), Str("SELL")} -> "SELL"
         [] o.action = Str("hold") -> "HOLD"
         [] OTHER -> ""

\* C27: normalizeDecision validates the object under the proposal's decision
\* key when that key holds an object, and the proposal itself otherwise; it
\* unwraps one level only, so an object under the key that has its own
\* decision key but no action is rejected; a returned BUY or SELL names the
\* symbol of the validated object
C27_UnwrapsOneLevel ==
  (call.op = "normalizeDecision" /\ call.done /\ call.decision.t = "object") =>
    /\ ActionWrittenIn(ValidatedObject) = "" => call.result.threw
    /\ ActionWrittenIn(ValidatedObject) = "HOLD" => ~call.result.threw
    /\ ~call.result.threw =>
         /\ call.result.value.action = Str(ActionWrittenIn(ValidatedObject))
         /\ ActionWrittenIn(ValidatedObject) \in {"BUY", "SELL"} =>
              \/ ValidatedObject.symbol = call.result.value.symbol
              \/ ValidatedObject.ticker = Str(" BTC/USD ")

\* a HOLD proposal holding a BUY proposal under its decision key was returned
\* as the BUY
C27_Witness ==
  /\ call.op = "normalizeDecision"
  /\ call.done
  /\ call.decision.t = "object"
  /\ call.decision.action = Str("hold")
  /\ call.decision.decision.t = "object"
  /\ call.decision.decision.action = Str(" buy ")
  /\ ~call.result.threw
  /\ call.result.value.action = Str("BUY")
  /\ call.result.value.quantity = Num(5)

=============================================================================
